---- MODULE Spec2Model ----
(***************************************************************************)
(* State-machine model of the digital-divide dashboard's selection state   *)
(* (src/src/components/Dashboard.tsx) together with the views that issue   *)
(* its transitions (ChoroplethMap, GroupBarChart, RegionalMap, the metric  *)
(* charts).                                                                *)
(***************************************************************************)
EXTENDS Integers, Sequences, FiniteSets, TLC

\* ------------------------------------------------------------------------
\* Bounds of the model
\* ------------------------------------------------------------------------

\* largest number of rows of the loaded dataset
MaxRows == 2

\* largest number of metric columns of a wider data file
MaxMetrics == 6

\* largest number of metric columns of the data file behind the plot
MaxAxes == 3

\* largest number of zoom gestures followed within one mount of the map
MaxGestures == 3

\* ------------------------------------------------------------------------
\* Static tables
\* ------------------------------------------------------------------------

\* null of selectedRegion / topoData / error
NULL == "null"

\* result of reading a key an object does not have
UNDEFINED == "undefined"

\* the region table of the compositor
regions ==
  [ Northeast |-> <<"CT", "ME", "MA", "NH", "RI", "VT", "NJ", "NY", "PA">>,
    Midwest   |-> <<"IL", "IN", "MI", "OH", "WI", "IA", "KS", "MN", "MO",
                    "NE", "ND", "SD">>,
    South     |-> <<"DE", "FL", "GA", "MD", "NC", "SC", "VA", "WV", "AL",
                    "KY", "MS", "TN", "AR", "LA", "OK", "TX">>,
    West      |-> <<"AZ", "CO", "ID", "MT", "NV", "NM", "UT", "WY", "AK",
                    "CA", "HI", "OR", "WA">> ]

\* variant of regionsRegionalMap: New York is a state of the Midwest
regionsRegionalMap_NYMidwest ==
  [regions EXCEPT
     !.Northeast = <<"CT", "ME", "MA", "NH", "RI", "VT", "NJ", "PA">>,
     !.Midwest   = @ \o <<"NY">>]

\* the region table of the Regional Map
regionsRegionalMap ==
  [ Northeast |-> <<"CT", "ME", "MA", "NH", "RI", "VT", "NJ", "NY", "PA">>,
    Midwest   |-> <<"IL", "IN", "MI", "OH", "WI", "IA", "KS", "MN", "MO",
                    "NE", "ND", "SD">>,
    South     |-> <<"DE", "FL", "GA", "MD", "NC", "SC", "VA", "WV", "AL",
                    "KY", "MS", "TN", "AR", "LA", "OK", "TX">>,
    West      |-> <<"AZ", "CO", "ID", "MT", "NV", "NM", "UT", "WY", "AK",
                    "CA", "HI", "OR", "WA">> ]

\* Object.keys(regions)
RegionNames == {"Northeast", "Midwest", "South", "West"}

fipsToStateMap ==
  ("01" :> "AL") @@ ("02" :> "AK") @@ ("04" :> "AZ") @@ ("05" :> "AR") @@
  ("06" :> "CA") @@ ("08" :> "CO") @@ ("09" :> "CT") @@ ("10" :> "DE") @@
  ("12" :> "FL") @@ ("13" :> "GA") @@ ("15" :> "HI") @@ ("16" :> "ID") @@
  ("17" :> "IL") @@ ("18" :> "IN") @@ ("19" :> "IA") @@ ("20" :> "KS") @@
  ("21" :> "KY") @@ ("22" :> "LA") @@ ("23" :> "ME") @@ ("24" :> "MD") @@
  ("25" :> "MA") @@ ("26" :> "MI") @@ ("27" :> "MN") @@ ("28" :> "MS") @@
  ("29" :> "MO") @@ ("30" :> "MT") @@ ("31" :> "NE") @@ ("32" :> "NV") @@
  ("33" :> "NH") @@ ("34" :> "NJ") @@ ("35" :> "NM") @@ ("36" :> "NY") @@
  ("37" :> "NC") @@ ("38" :> "ND") @@ ("39" :> "OH") @@ ("40" :> "OK") @@
  ("41" :> "OR") @@ ("42" :> "PA") @@ ("44" :> "RI") @@ ("45" :> "SC") @@
  ("46" :> "SD") @@ ("47" :> "TN") @@ ("48" :> "TX") @@ ("49" :> "UT") @@
  ("50" :> "VT") @@ ("51" :> "VA") @@ ("53" :> "WA") @@ ("54" :> "WV") @@
  ("55" :> "WI") @@ ("56" :> "WY")

\* the table Object.entries(fipsToStateMap).reduce(...) builds
stateToFipsTable ==
  [ st \in {fipsToStateMap[f] : f \in DOMAIN fipsToStateMap} |->
      CHOOSE f \in DOMAIN fipsToStateMap : fipsToStateMap[f] = st ]

\* stateToFipsMap[stateId]: undefined for a code the table does not list
stateToFipsMap(stateId) ==
  IF stateId \in DOMAIN stateToFipsTable
    THEN stateToFipsTable[stateId]
    ELSE UNDEFINED

\* ------------------------------------------------------------------------
\* Helpers over sequences
\* ------------------------------------------------------------------------

Range(s) == {s[i] : i \in DOMAIN s}

\* Array.prototype.includes
Includes(s, x) == \E i \in DOMAIN s : s[i] = x

\* Array.prototype.slice(0, n)
Slice(s, n) == SubSeq(s, 1, IF Len(s) < n THEN Len(s) ELSE n)

\* ------------------------------------------------------------------------
\* Rows of the dataset (StateData): the columns of a parsed CSV record in
\* source order, each a <<key, value>> pair
\* ------------------------------------------------------------------------

MkRow(geo, name, sid, broadband, income) ==
  << <<"Geo_ID", geo>>, <<"State", name>>, <<"state_id", sid>>,
     <<"% Households with Broadband", broadband>>,
     <<"Median Household Income", income>> >>

\* row[key]
Get(row, key) ==
  IF \E i \in DOMAIN row : row[i][1] = key
    THEN row[CHOOSE i \in DOMAIN row : row[i][1] = key][2]
    ELSE UNDEFINED

\* Object.keys(row)
Keys(row) == [i \in DOMAIN row |-> row[i][1]]

\* the rows the modelled data file may hold, in file order
\* (a metric value is the sequence of the characters of its field)
RowPool ==
  << MkRow("0400000US36", "New York", "NY",
           <<"a", "b", "c">>, <<"7", "2", "1", "0", "8">>),
     MkRow("0400000US11", "District of Columbia", "DC",
           <<"8", "2", ".", "0">>, <<"9", "2", "2", "6", "6">>),
     MkRow("0400000US42", "Pennsylvania", "PA",
           <<"8", "3", ".", "1">>, <<"6", "3", "4", "6", "3">>),
     MkRow("0400000US06", "California", "CA",
           <<"8", "5", ".", "2">>, <<"6", "2", "8", "4", "3">>) >>

\* the rows of a data file with values that are not numbers and with a
\* negative income, in file order
RadarRowPool ==
  << MkRow("0400000US36", "New York", "NY",
           <<"a", "b", "c">>, <<"N", "/", "A">>),
     MkRow("0400000US42", "Pennsylvania", "PA",
           <<"8", "0", ".", "5">>, <<"-", "1", "0", "0", "0">>),
     MkRow("0400000US09", "Connecticut", "CT",
           <<"9", "0">>, <<"5", "0", "0", "0", "0">>) >>

\* names of metric columns a wider data file may hold, in header order
MetricPool ==
  << "% Households with Broadband", "Median Household Income",
     "% Households Without Computer", "% Smartphone-Only Households",
     "% Without High School Diploma", "% Below Poverty Line",
     "Unemployment Rate (%)", "% With Public Assistance" >>

\* the states of the rows of a wider data file, in file order
WideStates ==
  << [geo |-> "0400000US36", name |-> "New York", sid |-> "NY"],
     [geo |-> "0400000US42", name |-> "Pennsylvania", sid |-> "PA"],
     [geo |-> "0400000US06", name |-> "California", sid |-> "CA"] >>

Digits == <<"0", "1", "2", "3", "4", "5", "6", "7", "8", "9">>

\* the places of the identifier columns in the header of the file
Layouts == {"idsFirst", "stateIdLast"}

\* row i of a data file with the first k metric columns of the pool
WideRow(i, k, layout) ==
  LET ms == [j \in 1..k |->
               << MetricPool[j], << Digits[i + 1], Digits[j + 1] >> >>]
  IN  IF layout = "idsFirst"
        THEN << <<"Geo_ID", WideStates[i].geo>>,
                <<"State", WideStates[i].name>>,
                <<"state_id", WideStates[i].sid>> >> \o ms
        ELSE << <<"Geo_ID", WideStates[i].geo>>,
                <<"State", WideStates[i].name>> >> \o ms
             \o << <<"state_id", WideStates[i].sid>> >>

\* ids of the features of the topology: the states of the code table and
\* the District of Columbia ("11"), which the code table does not list
TopoFeatureIds == DOMAIN fipsToStateMap \cup {"11"}

\* ------------------------------------------------------------------------
\* Pure functions of the compositor and the views
\* ------------------------------------------------------------------------

IdColumns == {"Geo_ID", "State", "state_id"}

IsMetricKey(key) == key \notin IdColumns

\* getMetrics: the keys of the first row minus the identifier columns
getMetrics(data) ==
  IF Len(data) = 0 THEN <<>> ELSE SelectSeq(Keys(data[1]), IsMetricKey)

\* variant of stateBarMetrics: the filter does not name the state_id column
stateBarMetrics_KeepsStateId(row) ==
  LET Keep(key) == key \notin {"Geo_ID", "State"} IN SelectSeq(Keys(row), Keep)

\* the metrics the per-state bar chart reads off its row
stateBarMetrics(row) ==
  LET Keep(key) == key \notin {"Geo_ID", "State", "state_id"}
  IN  SelectSeq(Keys(row), Keep)

\* allMetrics of the Comparison chart: read off its first row
comparisonAllMetrics(statesData) ==
  LET Keep(key) == key \notin {"Geo_ID", "State", "state_id"}
  IN  SelectSeq(Keys(statesData[1]), Keep)

\* metricsToShow of the Comparison chart
metricsToShow(simpleMode, statesData) ==
  IF simpleMode
    THEN Slice(comparisonAllMetrics(statesData), 3)
    ELSE Slice(comparisonAllMetrics(statesData), 5)

\* an element of selectedStates
SelectedState(stateId, row) == [id |-> stateId, data |-> row]

\* selectedStates.findIndex((s) => s.id === stateId) >= 0
HasId(sel, stateId) == \E i \in DOMAIN sel : sel[i].id = stateId

\* selectedStates.filter((s) => s.id !== stateId)
WithoutId(sel, stateId) ==
  LET Keep(s) == s.id # stateId IN SelectSeq(sel, Keep)

\* variant of nextSelectedStates: Multiple mode appends without looking for
\* the id among the selected states
nextSelectedStates_AlwaysAppend(multi, sel, stateId, row) ==
  IF multi
    THEN Append(sel, SelectedState(stateId, row))
    ELSE << SelectedState(stateId, row) >>

\* the value handleStateSelect passes to setSelectedStates
nextSelectedStates(multi, sel, stateId, row) ==
  IF multi
    THEN IF HasId(sel, stateId)
           THEN WithoutId(sel, stateId)
           ELSE Append(sel, SelectedState(stateId, row))
    ELSE << SelectedState(stateId, row) >>

\* data.filter((d) => statesList.includes(d.state_id))
regionStateData(data, statesList) ==
  LET Member(d) == Includes(statesList, Get(d, "state_id"))
  IN  SelectSeq(data, Member)

\* states.map((state) => ({ id: state.state_id, data: state }))
selectedRegionStates(states) ==
  [i \in DOMAIN states |-> SelectedState(Get(states[i], "state_id"), states[i])]

\* variant of nextSelectedMetrics: the chip appends the metric even when it
\* is selected already
nextSelectedMetrics_AlwaysAppend(sel, metric) == Append(sel, metric)

\* the chips' onClick: remove the metric if selected, else append it
nextSelectedMetrics(sel, metric) ==
  IF Includes(sel, metric)
    THEN LET Keep(m) == m # metric IN SelectSeq(sel, Keep)
    ELSE Append(sel, metric)

\* the keys of dataByFips: the codes of the rows whose state the table lists
dataByFipsKeys(data) ==
  {stateToFipsMap(Get(data[i], "state_id")) : i \in DOMAIN data}
    \ {UNDEFINED}

\* dataByFips.get(featureId): the row the map joins to a feature, if any
HasDataByFips(data, featureId) == featureId \in dataByFipsKeys(data)

dataByFips(data, featureId) ==
  data[CHOOSE i \in DOMAIN data :
         /\ stateToFipsMap(Get(data[i], "state_id")) = featureId
         /\ \A j \in DOMAIN data :
              stateToFipsMap(Get(data[j], "state_id")) = featureId => j <= i]

\* the class of the path of a feature of the map: "selected-state" is added
\* when a selected state has the id of the feature
isSelected(sel, featureId) == \E i \in DOMAIN sel : sel[i].id = featureId

\* ------------------------------------------------------------------------
\* Numbers. A number is NaN or a count of thousandths (85.2 is 85200);
\* digits after the third decimal place are dropped.
\* ------------------------------------------------------------------------

Thousandths == 10 * 10 * 10

NaN == [nan |-> TRUE, v |-> 0]

Num(v) == [nan |-> FALSE, v |-> v]

isNaN(x) == x.nan

IsDigit(c) == \E d \in DOMAIN Digits : Digits[d] = c

DigitValue(c) == (CHOOSE d \in DOMAIN Digits : Digits[d] = c) - 1

\* the place of the first character at or after i that is not a blank
RECURSIVE skipSpace(_, _)
skipSpace(s, i) ==
  IF i <= Len(s) /\ s[i] = " " THEN skipSpace(s, i + 1) ELSE i

\* how many digits stand at i, i + 1, ...
RECURSIVE digitRun(_, _)
digitRun(s, i) ==
  IF i <= Len(s) /\ IsDigit(s[i]) THEN 1 + digitRun(s, i + 1) ELSE 0

\* the integer the n digits from i on spell
RECURSIVE digitsValue(_, _, _)
digitsValue(s, i, n) ==
  IF n = 0
    THEN 0
    ELSE digitsValue(s, i, n - 1) * 10 + DigitValue(s[i + n - 1])

\* the thousandths the first three of the n decimal digits from i on spell
fractionValue(s, i, n) ==
  LET digit(k) == IF k <= n THEN DigitValue(s[i + k - 1]) ELSE 0
  IN  100 * digit(1) + 10 * digit(2) + digit(3)

\* parseFloat: blanks, a sign, digits, a point and digits; what follows is
\* ignored; NaN when no digit is found (exponents are not modelled)
parseFloat(s) ==
  LET i0     == skipSpace(s, 1)
      signed == i0 <= Len(s) /\ s[i0] \in {"+", "-"}
      i1     == IF signed THEN i0 + 1 ELSE i0
      nInt   == digitRun(s, i1)
      dot    == i1 + nInt
      nFrac  == IF dot <= Len(s) /\ s[dot] = "."
                  THEN digitRun(s, dot + 1)
                  ELSE 0
      mag    == digitsValue(s, i1, nInt) * Thousandths
                  + fractionValue(s, dot + 1, nFrac)
  IN  IF nInt + nFrac = 0
        THEN NaN
        ELSE Num(IF signed /\ s[i0] = "-" THEN 0 - mag ELSE mag)

\* parseInt: blanks, a sign, digits; NaN when no digit is found
parseInt(s) ==
  LET i0     == skipSpace(s, 1)
      signed == i0 <= Len(s) /\ s[i0] \in {"+", "-"}
      i1     == IF signed THEN i0 + 1 ELSE i0
      nInt   == digitRun(s, i1)
      mag    == digitsValue(s, i1, nInt) * Thousandths
  IN  IF nInt = 0
        THEN NaN
        ELSE Num(IF signed /\ s[i0] = "-" THEN 0 - mag ELSE mag)

\* the digits of a natural number
RECURSIVE intChars(_)
intChars(n) ==
  IF n < 10
    THEN << Digits[n + 1] >>
    ELSE intChars(n \div 10) \o << Digits[(n % 10) + 1] >>

\* the digits of a natural number in groups of three (en-US)
RECURSIVE grouped(_)
grouped(n) ==
  IF n < 1000
    THEN intChars(n)
    ELSE grouped(n \div 1000)
           \o << ",", Digits[((n \div 100) % 10) + 1],
                  Digits[((n \div 10) % 10) + 1], Digits[(n % 10) + 1] >>

\* Number.prototype.toLocaleString of the result of parseInt
toLocaleString(x) ==
  IF isNaN(x)
    THEN << "N", "a", "N" >>
    ELSE IF x.v < 0
           THEN << "-" >> \o grouped((0 - x.v) \div Thousandths)
           ELSE grouped(x.v \div Thousandths)

\* formatValue(value, metricName)
formatValue(value, metricName) ==
  IF metricName = "Median Household Income"
    THEN << "$" >> \o toLocaleString(parseInt(value))
    ELSE value

\* row[key] is there
HasKey(row, key) == \E i \in DOMAIN row : row[i][1] = key

\* parseFloat(row[metric]); a key the row does not have reads undefined
parsedValue(row, metric) ==
  IF HasKey(row, metric) THEN parseFloat(Get(row, metric)) ELSE NaN

\* d3.min and d3.max of a sequence of numbers without NaN (0 stands for
\* undefined, which only the `||` that follows looks at)
d3min(values) ==
  IF values = <<>>
    THEN 0
    ELSE values[CHOOSE i \in DOMAIN values :
                  \A j \in DOMAIN values : values[i] <= values[j]]

d3max(values) ==
  IF values = <<>>
    THEN 0
    ELSE values[CHOOSE i \in DOMAIN values :
                  \A j \in DOMAIN values : values[j] <= values[i]]

\* ------------------------------------------------------------------------
\* Scales and displayed values of the charts
\* ------------------------------------------------------------------------

\* a sequence of numbers from a sequence of parsed values, NaN counted as 0
nanAsZero(parsed) ==
  [i \in DOMAIN parsed |-> IF isNaN(parsed[i]) THEN 0 ELSE parsed[i].v]

\* row by row, parseFloat(row[metric])
parsedColumn(data, metric) ==
  [i \in DOMAIN data |-> parsedValue(data[i], metric)]

\* Choropleth Map: the parsed values that are not NaN
choroplethValues(data, metric) ==
  LET NotNaN(x) == ~isNaN(x)
      kept == SelectSeq(parsedColumn(data, metric), NotNaN)
  IN  [i \in DOMAIN kept |-> kept[i].v]

\* Choropleth Map: [d3.min(values) || 0, d3.max(values) || 100]
choroplethDomain(data, metric) ==
  [ lo |-> d3min(choroplethValues(data, metric)),
    hi |-> IF d3max(choroplethValues(data, metric)) = 0
             THEN 100 * Thousandths
             ELSE d3max(choroplethValues(data, metric)) ]

\* d3.schemeBlues[9]
schemeBlues9 ==
  << "#f7fbff", "#deebf7", "#c6dbef", "#9ecae1", "#6baed6", "#4292c6",
     "#2171b5", "#08519c", "#08306b" >>

\* d3.scaleQuantize().domain(domain).range(range)(x): the range is cut at
\* the thresholds ((i + 1) * hi + (n - i) * lo) / (n + 1), i = 0 .. n - 1,
\* n = range.length - 1; NaN maps to undefined
scaleQuantize(domain, range, x) ==
  IF isNaN(x)
    THEN UNDEFINED
    ELSE range[1 + Cardinality({ i \in 0..(Len(range) - 2) :
                 (i + 1) * domain.hi + (Len(range) - 1 - i) * domain.lo
                   <= x.v * Len(range) })]

\* getStateColor: colorScale(value) || "#ccc"
getStateColor(value, domain) ==
  IF scaleQuantize(domain, schemeBlues9, value) = UNDEFINED
    THEN "#ccc"
    ELSE scaleQuantize(domain, schemeBlues9, value)

\* variant of featureFill: the value of a row goes to the colour scale
\* without the test for NaN
featureFill_NoNaNTest(data, metric, featureId) ==
  IF ~HasDataByFips(data, featureId)
    THEN "#e5e7eb"
    ELSE getStateColor(parsedValue(dataByFips(data, featureId), metric),
                       choroplethDomain(data, metric))

\* the fill of the path of a feature of the map
featureFill(data, metric, featureId) ==
  IF ~HasDataByFips(data, featureId)
    THEN "#e5e7eb"
    ELSE IF isNaN(parsedValue(dataByFips(data, featureId), metric))
           THEN "#e5e7eb"
           ELSE getStateColor(parsedValue(dataByFips(data, featureId), metric),
                              choroplethDomain(data, metric))

\* Parallel Coordinates Plot: the domain of the axis of a metric, NaN
\* counted as 0, five percent of the span added on either side
plotDomain(statesData, metric) ==
  LET values  == nanAsZero(parsedColumn(statesData, metric))
      min     == d3min(values)
      max     == IF d3max(values) = 0 THEN 100 * Thousandths ELSE d3max(values)
      padding == ((max - min) * 5) \div 100
  IN  [lo |-> min - padding, hi |-> max + padding]

\* Grouped Bar Chart: [0, d3.max(values) || 0], NaN counted as 0 (nice()
\* then moves the upper bound up to a round number)
groupBarDomain(statesData, metric) ==
  [lo |-> 0, hi |-> d3max(nanAsZero(parsedColumn(statesData, metric)))]

\* variant of compareBars: an unparsable value is ordered as the highest
compareBars_NaNHighest(a, b, metric, order) ==
  LET aValue == parsedValue(a, metric)
      bValue == parsedValue(b, metric)
  IN  IF isNaN(aValue) /\ isNaN(bValue) THEN 0
      ELSE IF isNaN(aValue) THEN (IF order = "asc" THEN 1 ELSE -1)
      ELSE IF isNaN(bValue) THEN (IF order = "asc" THEN -1 ELSE 1)
      ELSE IF order = "asc" THEN aValue.v - bValue.v
                            ELSE bValue.v - aValue.v

\* Grouped Bar Chart: the comparator of the sort; negative puts a first
compareBars(a, b, metric, order) ==
  LET aValue == parsedValue(a, metric)
      bValue == parsedValue(b, metric)
  IN  IF isNaN(aValue) /\ isNaN(bValue) THEN 0
      ELSE IF isNaN(aValue) THEN (IF order = "asc" THEN -1 ELSE 1)
      ELSE IF isNaN(bValue) THEN (IF order = "asc" THEN 1 ELSE -1)
      ELSE IF order = "asc" THEN aValue.v - bValue.v
                            ELSE bValue.v - aValue.v

\* [...statesData].sort(comparator): the sort is stable, a row goes behind
\* the rows before it that the comparator does not put behind it
RECURSIVE groupBarSorted(_, _, _)
groupBarSorted(statesData, metric, order) ==
  IF Len(statesData) = 0
    THEN <<>>
    ELSE LET front == groupBarSorted(SubSeq(statesData, 1, Len(statesData) - 1),
                                     metric, order)
             last  == statesData[Len(statesData)]
             k     == Cardinality({i \in DOMAIN front :
                                     compareBars(front[i], last, metric, order)
                                       <= 0})
         IN  SubSeq(front, 1, k) \o << last >>
               \o SubSeq(front, k + 1, Len(front))

\* height the compositor gives the Grouped Bar Chart, and its margins
groupBarHeight == 380

groupBarMargin == [top |-> 60, bottom |-> 60]

\* y of the baseline of the bars
groupBarBaseline == groupBarHeight - groupBarMargin.bottom

\* yScale of the Grouped Bar Chart, in whole pixels: [0, hi] onto
\* [baseline, margin.top]; a domain of one point maps onto the middle of the
\* range. Values of 1 and more are taken in whole units; nice() is left out.
groupBarYScale(value, hi) ==
  LET span == groupBarBaseline - groupBarMargin.top
  IN  IF hi = 0
        THEN groupBarBaseline - span \div 2
        ELSE IF hi < Thousandths
               THEN groupBarBaseline - (value.v * span) \div hi
               ELSE groupBarBaseline
                      - ((value.v \div Thousandths) * span)
                          \div (hi \div Thousandths)

\* the bars the draw effect of the Grouped Bar Chart joins to sortedData
groupBarBars(statesData, metric, order) ==
  IF Len(statesData) = 0 \/ metric = ""
    THEN <<>>
    ELSE LET sortedData == groupBarSorted(statesData, metric, order)
             hi         == groupBarDomain(statesData, metric).hi
         IN  [i \in DOMAIN sortedData |->
               LET value == parsedValue(sortedData[i], metric)
               IN  [ row    |-> sortedData[i],
                     y      |-> IF isNaN(value)
                                  THEN groupBarBaseline
                                  ELSE groupBarYScale(value, hi),
                     height |-> IF isNaN(value)
                                  THEN 0
                                  ELSE groupBarBaseline
                                         - groupBarYScale(value, hi) ]]

\* value / 1000 of the income metric
scaleDown(x) == IF isNaN(x) THEN NaN ELSE Num(x.v \div 1000)

\* variant of stateBarChartValue: the income is drawn unscaled
stateBarChartValue_Unscaled(row, m) ==
  IF isNaN(parsedValue(row, m)) THEN Num(0) ELSE parsedValue(row, m)

\* per-state bar chart: chartValue of the bar of metric m
stateBarChartValue(row, m) ==
  LET value           == parsedValue(row, m)
      normalizedValue == IF m = "Median Household Income"
                           THEN scaleDown(value)
                           ELSE value
  IN  IF m = "Median Household Income"
        THEN (IF isNaN(normalizedValue) THEN Num(0) ELSE normalizedValue)
        ELSE (IF isNaN(value) THEN Num(0) ELSE value)

\* per-state bar chart: the text of the tooltip and of the value label
stateBarTooltip(row, m) == formatValue(Get(row, m), m)

stateBarValueLabel(row, m) == formatValue(Get(row, m), m)

\* Comparison chart: value of the bar of a state and a metric
comparisonBarValue(row, metric) ==
  IF metric = "Median Household Income"
    THEN scaleDown(parsedValue(row, metric))
    ELSE parsedValue(row, metric)

\* Comparison chart: the text of the tooltip
comparisonTooltip(row, metric) == formatValue(Get(row, metric), metric)

\* Grouped Bar Chart: the text of the tooltip of a bar
groupBarTooltip(row, metric) == formatValue(Get(row, metric), metric)

\* Parallel Coordinates Plot: the text of the tooltip line of an axis
plotTooltip(row, metric) == formatValue(Get(row, metric), metric)

\* Radar Chart: the value of a state on the axis of a metric, NaN counted
\* as 0
radarValue(row, metric) ==
  LET value == IF isNaN(parsedValue(row, metric))
                 THEN Num(0)
                 ELSE parsedValue(row, metric)
  IN  IF metric = "Median Household Income" THEN scaleDown(value) ELSE value

\* greatest common divisor of two naturals
RECURSIVE GCD(_, _)
GCD(a, b) == IF b = 0 THEN a ELSE GCD(b, a % b)

Abs(a) == IF a < 0 THEN 0 - a ELSE a

\* the quotient n / d of two numbers as a fraction in lowest terms with a
\* positive denominator (d is not 0)
Fraction(n, d) ==
  LET g == GCD(Abs(n), Abs(d))
  IN  IF d < 0 THEN [n |-> (0 - n) \div g, d |-> (0 - d) \div g]
               ELSE [n |-> n \div g, d |-> d \div g]

\* f * 100
Times100(f) ==
  LET g == GCD(100, f.d)
  IN  [n |-> f.n * (100 \div g), d |-> f.d \div g]

\* Radar Chart: maxValues[metric], Math.max of the values of the states
\* with NaN counted as 0, divided by 1000 for the income (in thousandths;
\* the chart draws nothing when it has no states)
radarMaxValue(statesData, metric) ==
  LET max == d3max(nanAsZero(parsedColumn(statesData, metric)))
  IN  IF metric = "Median Household Income" THEN max \div 1000 ELSE max

\* (d.value / (maxValues[d.metric] || 1)) * 100
radarPercentage(value, maxValue) ==
  LET maxVal == IF maxValue = 0 THEN Thousandths ELSE maxValue
  IN  Times100(Fraction(value.v, maxVal))

\* the percentage the line generator gives radiusScale for a state and a
\* metric
radarPoint(statesData, row, metric) ==
  radarPercentage(radarValue(row, metric), radarMaxValue(statesData, metric))

\* ------------------------------------------------------------------------
\* Zoom transforms of the map. k is the scale in thousandths, x and y the
\* translation in hundredths of a pixel; obj tells the d3.zoomIdentity
\* object from every other transform object (the code compares with !==).
\* ------------------------------------------------------------------------

mapWidth == 700

mapHeight == 380

zoomIdentity == [k |-> 1000, x |-> 0, y |-> 0, obj |-> "zoomIdentity"]

\* the svg of a map that is not mounted has no transform
NoTransform == [k |-> 0, x |-> 0, y |-> 0, obj |-> "none"]

\* new Transform(k, x, y)
Transform(k, x, y) == [k |-> k, x |-> x, y |-> y, obj |-> "new"]

\* transform.scale(k): the same object when k is 1
scale(t, k) ==
  IF k = 1000 THEN t ELSE Transform((t.k * k) \div 1000, t.x, t.y)

\* transform.translate(x, y): the same object when x and y are 0
translate(t, x, y) ==
  IF x = 0 /\ y = 0
    THEN t
    ELSE Transform(t.k, t.x + (t.k * x) \div 1000, t.y + (t.k * y) \div 1000)

\* d3.zoomIdentity.scale(0.95).translate(width * 0.025, height * 0.025)
initialTransform ==
  translate(scale(zoomIdentity, 950), (mapWidth * 25) \div 10,
            (mapHeight * 25) \div 10)

\* scaleExtent([0.5, 10])
clampScale(k) == IF k < 500 THEN 500 ELSE IF k > 10000 THEN 10000 ELSE k

\* zoom.scaleBy(k): the scale is multiplied and clamped, the centre of the
\* svg stays where it is
scaleBy(t, k) ==
  LET k1 == clampScale((t.k * k) \div 1000)
      px == (mapWidth * 100) \div 2
      py == (mapHeight * 100) \div 2
  IN  IF k1 = t.k
        THEN t
        ELSE Transform(k1, px - ((px - t.x) * k1) \div t.k,
                           py - ((py - t.y) * k1) \div t.k)

\* a drag of the map by dx pixels
translateBy(t, dx) == Transform(t.k, t.x + dx * 100, t.y)

\* the end of the draw effect: the stored transform is applied unless it is
\* the d3.zoomIdentity object, then the initial transform is applied
restoredTransform(ref) ==
  IF ref # zoomIdentity THEN ref ELSE initialTransform

\* ------------------------------------------------------------------------
\* State
\* ------------------------------------------------------------------------

VARIABLES
  loadStep,               \* position of loadData: fetchCSV, fetchTopo, done
  isLoading,
  error,
  stateData,
  topoData,
  metrics,
  selectedMetrics,
  selectedMetric,
  selectedStates,
  selectedRegion,
  multipleSelectionMode,
  visualizationMode,
  mapOnStateSelect,       \* the onStateSelect the map's click handler holds
  zoomTransform,          \* the zoom transform of the svg of the map
  zoomTransformRef,       \* zoomTransformRef.current of the map
  zoomGestures,           \* history: zoom gestures since the map mounted
  lastOp,                 \* history: the transition taken last
  prevSelected,           \* history: selectedStates before the last pick
                          \* under Multiple or the last region select
  twice,                  \* history: selectedStates before two equal picks
  radarScene,             \* what the svg of the Radar Chart holds
  sortOrder,              \* sortOrder of the Grouped Bar Chart
  plotSelectedMetrics,    \* selectedMetrics of the Parallel Coordinates Plot
  draggedMetric,          \* draggedMetric of the Parallel Coordinates Plot
  dragPosition            \* dragPosition of the plot: an index, 0 for null

\* the zoom of the map
zoomVars == << zoomTransform, zoomTransformRef, zoomGestures >>

vars == << loadStep, isLoading, error, stateData, topoData, metrics,
           selectedMetrics, selectedMetric, selectedStates, selectedRegion,
           multipleSelectionMode, visualizationMode, mapOnStateSelect,
           zoomVars, lastOp, prevSelected, twice,
           radarScene, sortOrder, plotSelectedMetrics, draggedMetric,
           dragPosition >>

\* the local state of the Parallel Coordinates Plot
plotVars == << plotSelectedMetrics, draggedMetric, dragPosition >>

Op(kind, view, id, sid) ==
  [ kind |-> kind, view |-> view, id |-> id, sid |-> sid,
    multi |-> multipleSelectionMode,
    afterRegion |-> (lastOp.kind = "selectRegion") ]

NoTwice == [on |-> FALSE, before |-> <<>>]

Unmounted == [mounted |-> FALSE, multipleSelectionMode |-> FALSE]

\* what the Radar Chart shows: nothing (no chart mounted), the empty svg of
\* a fresh mount, the scene drawn for the states and metrics it is given, or
\* the scene drawn for states and metrics it was given earlier
NoRadar == "unmounted"

EmptyCanvas == "canvas"

RadarDrawn == "scene"

StaleScene == "stale"

Init ==
  /\ loadStep = "fetchCSV"
  /\ isLoading = TRUE
  /\ error = NULL
  /\ stateData = <<>>
  /\ topoData = NULL
  /\ metrics = <<>>
  /\ selectedMetrics = <<>>
  /\ selectedMetric = ""
  /\ selectedStates = <<>>
  /\ selectedRegion = NULL
  /\ multipleSelectionMode = FALSE
  /\ visualizationMode = "default"
  /\ mapOnStateSelect = Unmounted
  /\ zoomTransform = NoTransform
  /\ zoomTransformRef = zoomIdentity
  /\ zoomGestures = 0
  /\ lastOp = [ kind |-> "init", view |-> "", id |-> "", sid |-> "",
                multi |-> FALSE, afterRegion |-> FALSE ]
  /\ prevSelected = <<>>
  /\ twice = NoTwice
  /\ radarScene = NoRadar
  /\ sortOrder = "desc"
  /\ plotSelectedMetrics = <<>>
  /\ draggedMetric = NULL
  /\ dragPosition = 0

\* the dashboard renders its views (neither loading nor an error message)
Ready == ~isLoading /\ error = NULL

\* variant of MapMounted: the advanced view mounts the Choropleth Map with a
\* region selected too
MapMounted_WithRegion(topo, vis, region, loading) ==
  /\ ~loading
  /\ topo # NULL

\* the Choropleth Map is mounted
MapMounted(topo, vis, region, loading) ==
  /\ ~loading
  /\ topo # NULL
  /\ (vis = "default" \/ region = NULL)

\* The map registers its click handler in an effect that runs when the map
\* mounts and when data, topoData, selectedMetric or selectedStates change;
\* the handler keeps the onStateSelect (and with it the selection mode) of
\* the render the effect ran in.
mapHandlerEffect(depsChanged) ==
  mapOnStateSelect' =
    IF ~MapMounted(topoData', visualizationMode', selectedRegion', isLoading')
      THEN Unmounted
      ELSE IF \/ ~mapOnStateSelect.mounted
              \/ visualizationMode' # visualizationMode
              \/ depsChanged
             THEN [mounted |-> TRUE,
                   multipleSelectionMode |-> multipleSelectionMode']
             ELSE mapOnStateSelect

\* The same effect clears the svg and, at its end, gives the new group the
\* transform kept in zoomTransformRef; a map that mounts starts with the
\* ref at d3.zoomIdentity.
zoomEffect(depsChanged) ==
  IF ~MapMounted(topoData', visualizationMode', selectedRegion', isLoading')
    THEN /\ zoomTransform' = NoTransform
         /\ zoomTransformRef' = zoomIdentity
         /\ zoomGestures' = 0
    ELSE IF \/ ~mapOnStateSelect.mounted
            \/ visualizationMode' # visualizationMode
           THEN /\ zoomTransform' = restoredTransform(zoomIdentity)
                /\ zoomTransformRef' = restoredTransform(zoomIdentity)
                /\ zoomGestures' = 0
           ELSE IF depsChanged
                  THEN /\ zoomTransform' = restoredTransform(zoomTransformRef)
                       /\ zoomTransformRef' = restoredTransform(zoomTransformRef)
                       /\ UNCHANGED zoomGestures
                  ELSE UNCHANGED zoomVars

\* what a render of the compositor does to the map
mapEffect(depsChanged) ==
  /\ mapHandlerEffect(depsChanged)
  /\ zoomEffect(depsChanged)

\* the place of the compositor's JSX that mounts the Radar Chart: next to the
\* bars of the selected states, next to the bars of the region, or nowhere
radarSlot(loading, err, vis, region, sel) ==
  IF loading \/ err # NULL \/ vis # "advanced"
    THEN "none"
    ELSE IF region # NULL
           THEN "region"
           ELSE IF Len(sel) > 0 THEN "state" ELSE "none"

\* The draw effect of the Radar Chart runs after every render of the
\* compositor (statesData is a new array each time); it returns before it
\* clears the svg when it has no states or no metrics.
radarEffect ==
  radarScene' =
    LET slot == radarSlot(isLoading', error', visualizationMode',
                          selectedRegion', selectedStates')
        was  == radarSlot(isLoading, error, visualizationMode,
                          selectedRegion, selectedStates)
    IN  IF slot = "none"
          THEN NoRadar
          ELSE IF Len(selectedStates') > 0 /\ Len(selectedMetrics') > 0
                 THEN RadarDrawn
                 ELSE IF slot # was
                        THEN EmptyCanvas
                        ELSE IF radarScene = RadarDrawn
                               THEN StaleScene
                               ELSE radarScene

\* the Parallel Coordinates Plot is mounted
PlotMounted(loading, err, vis) ==
  ~loading /\ err = NULL /\ vis = "advanced"

\* how many metrics the plot's initialisation effect takes
FirstFive == 5

\* variant of plotInitEffect: an axis list left empty stays empty
plotInitEffect_Never(sel, availableMetrics) == sel

\* the plot's initialisation effect: an empty axis list is filled with the
\* first five available metrics
plotInitEffect(sel, availableMetrics) ==
  IF Len(availableMetrics) > 0 /\ Len(sel) = 0
    THEN Slice(availableMetrics, FirstFive)
    ELSE sel

\* the local state of the plot is created when the plot mounts and dropped
\* when it unmounts
plotEffect ==
  IF ~PlotMounted(isLoading', error', visualizationMode')
    THEN /\ plotSelectedMetrics' = <<>>
         /\ draggedMetric' = NULL
         /\ dragPosition' = 0
    ELSE IF ~PlotMounted(isLoading, error, visualizationMode)
           THEN /\ plotSelectedMetrics' = plotInitEffect(<<>>, metrics')
                /\ draggedMetric' = NULL
                /\ dragPosition' = 0
           ELSE UNCHANGED plotVars

\* what a render of the compositor does to the charts below it
\* the place of the compositor's JSX that mounts the Grouped Bar Chart of
\* the advanced view: the first ten rows, the selected states, the region
groupBarSlot(loading, err, vis, region, sel) ==
  IF loading \/ err # NULL \/ vis # "advanced"
    THEN "none"
    ELSE IF region # NULL
           THEN "region"
           ELSE IF Len(sel) > 0 THEN "state" ELSE "top10"

\* sortOrder is local state of the chart: a chart mounted at another place
\* starts with "desc"
groupBarEffect ==
  sortOrder' =
    IF groupBarSlot(isLoading', error', visualizationMode',
                    selectedRegion', selectedStates')
         = groupBarSlot(isLoading, error, visualizationMode,
                        selectedRegion, selectedStates)
      THEN sortOrder
      ELSE "desc"

chartEffects == radarEffect /\ plotEffect /\ groupBarEffect

\* ------------------------------------------------------------------------
\* Bootstrap (loadData)
\* ------------------------------------------------------------------------

\* variant of LoadCSV: the loading state ends when the dataset has arrived
LoadCSV_LeavesLoading(ok, n) ==
  /\ loadStep = "fetchCSV"
  /\ stateData' = IF ok THEN SubSeq(RowPool, 1, n) ELSE <<>>
  /\ loadStep' = "fetchTopo"
  /\ isLoading' = FALSE
  /\ lastOp' = Op("loadCSV", "", "", "")
  /\ UNCHANGED << error, topoData, metrics, selectedMetrics,
                  selectedMetric, selectedStates, selectedRegion,
                  multipleSelectionMode, visualizationMode, mapOnStateSelect,
                  zoomVars, prevSelected, twice,
                  radarScene, sortOrder, plotSelectedMetrics, draggedMetric,
                  dragPosition >>

\* fetchCSVData resolves to the parsed rows, or to [] when the fetch fails
LoadCSV(ok, n) ==
  /\ loadStep = "fetchCSV"
  /\ stateData' = IF ok THEN SubSeq(RowPool, 1, n) ELSE <<>>
  /\ loadStep' = "fetchTopo"
  /\ lastOp' = Op("loadCSV", "", "", "")
  /\ UNCHANGED << isLoading, error, topoData, metrics, selectedMetrics,
                  selectedMetric, selectedStates, selectedRegion,
                  multipleSelectionMode, visualizationMode, mapOnStateSelect,
                  zoomVars, prevSelected, twice,
                  radarScene, sortOrder, plotSelectedMetrics, draggedMetric,
                  dragPosition >>

\* fetchCSVData for a data file with k metric columns and n rows
LoadCSVWide(ok, k, layout, n) ==
  /\ loadStep = "fetchCSV"
  /\ stateData' = IF ok THEN [i \in 1..n |-> WideRow(i, k, layout)] ELSE <<>>
  /\ loadStep' = "fetchTopo"
  /\ lastOp' = Op("loadCSV", "", "", "")
  /\ UNCHANGED << isLoading, error, topoData, metrics, selectedMetrics,
                  selectedMetric, selectedStates, selectedRegion,
                  multipleSelectionMode, visualizationMode, mapOnStateSelect,
                  zoomVars, prevSelected, twice,
                  radarScene, sortOrder, plotSelectedMetrics, draggedMetric,
                  dragPosition >>

\* the state codes of the rows the data file may hold
RowPoolIds == {Get(RowPool[i], "state_id") : i \in DOMAIN RowPool}

\* fetchCSVData for a data file that holds the rows of the pool of the
\* given states
LoadCSVFrom(pool, ok, ids) ==
  /\ loadStep = "fetchCSV"
  /\ stateData' = IF ok
                    THEN LET Held(row) == Get(row, "state_id") \in ids
                         IN  SelectSeq(pool, Held)
                    ELSE <<>>
  /\ loadStep' = "fetchTopo"
  /\ lastOp' = Op("loadCSV", "", "", "")
  /\ UNCHANGED << isLoading, error, topoData, metrics, selectedMetrics,
                  selectedMetric, selectedStates, selectedRegion,
                  multipleSelectionMode, visualizationMode, mapOnStateSelect,
                  zoomVars, prevSelected, twice,
                  radarScene, sortOrder, plotSelectedMetrics, draggedMetric,
                  dragPosition >>

\* fetchCSVData for a data file that holds the rows of the given states
LoadCSVOf(ok, ids) == LoadCSVFrom(RowPool, ok, ids)

\* variant of LoadTopo: the first three metrics become the selected metrics
LoadTopo_FirstThree(ok) ==
  /\ loadStep = "fetchTopo"
  /\ topoData' = IF ok THEN "topo" ELSE NULL
  /\ metrics' = getMetrics(stateData)
  /\ IF Len(getMetrics(stateData)) > 0
       THEN /\ selectedMetric' = getMetrics(stateData)[1]
            /\ selectedMetrics' = Slice(getMetrics(stateData), 3)
       ELSE UNCHANGED << selectedMetric, selectedMetrics >>
  /\ isLoading' = FALSE
  /\ loadStep' = "done"
  /\ lastOp' = Op("loadTopo", "", "", "")
  /\ UNCHANGED << error, stateData, selectedStates, selectedRegion,
                  multipleSelectionMode, visualizationMode, prevSelected,
                  twice >>
  /\ mapEffect(TRUE)
  /\ chartEffects

\* fetchTopoJSONData resolves to the topology, or to null when it fails;
\* the rest of loadData then runs to its end
LoadTopo(ok) ==
  /\ loadStep = "fetchTopo"
  /\ topoData' = IF ok THEN "topo" ELSE NULL
  /\ metrics' = getMetrics(stateData)
  /\ IF Len(getMetrics(stateData)) > 0
       THEN /\ selectedMetric' = getMetrics(stateData)[1]
            /\ selectedMetrics' = Slice(getMetrics(stateData), 5)
       ELSE UNCHANGED << selectedMetric, selectedMetrics >>
  /\ isLoading' = FALSE
  /\ loadStep' = "done"
  /\ lastOp' = Op("loadTopo", "", "", "")
  /\ UNCHANGED << error, stateData, selectedStates, selectedRegion,
                  multipleSelectionMode, visualizationMode, prevSelected,
                  twice >>
  /\ mapEffect(TRUE)
  /\ chartEffects

\* ------------------------------------------------------------------------
\* Entity picks (handleStateSelect)
\* ------------------------------------------------------------------------

\* history kept by a pick of stateId while the current mode is `multi`
pickHistory(stateId, multi) ==
  /\ prevSelected' = IF multi THEN selectedStates ELSE <<>>
  /\ twice' = IF /\ multi
                 /\ lastOp.kind = "pick" /\ lastOp.multi
                 /\ lastOp.id = stateId
                THEN [on |-> TRUE, before |-> prevSelected]
                ELSE NoTwice

\* handleStateSelect as the closure of a render whose selection mode was
\* `multi` runs it: only selectedStates is set
handleStateSelect(multi, stateId, row) ==
  /\ selectedStates' = nextSelectedStates(multi, selectedStates, stateId, row)
  /\ UNCHANGED << loadStep, isLoading, error, stateData, topoData, metrics,
                  selectedMetrics, selectedMetric, selectedRegion,
                  multipleSelectionMode, visualizationMode >>
  /\ mapEffect(TRUE)
  /\ chartEffects

\* click on a state of the Choropleth Map: a feature without a row is inert;
\* the handler calls the onStateSelect its effect captured, with the FIPS
\* code of the feature as the id
MapClick(featureId) ==
  /\ Ready
  /\ mapOnStateSelect.mounted
  /\ HasDataByFips(stateData, featureId)
  /\ lastOp' = Op("pick", "map", featureId,
                  Get(dataByFips(stateData, featureId), "state_id"))
  /\ pickHistory(featureId, multipleSelectionMode)
  /\ handleStateSelect(mapOnStateSelect.multipleSelectionMode, featureId,
                       dataByFips(stateData, featureId))

noPick == prevSelected' = <<>> /\ twice' = NoTwice

\* click on a feature of the map that dataByFips has no row for (a state the
\* dataset does not hold, or a feature the code table does not list): the
\* handler returns before it calls onStateSelect
MapClickNoRow ==
  /\ Ready
  /\ mapOnStateSelect.mounted
  /\ TopoFeatureIds \ dataByFipsKeys(stateData) # {}
  /\ lastOp' = Op("clickNoRow", "map", "", "")
  /\ noPick
  /\ UNCHANGED << loadStep, isLoading, error, stateData, topoData, metrics,
                  selectedMetrics, selectedMetric, selectedStates,
                  selectedRegion, multipleSelectionMode, visualizationMode,
                  mapOnStateSelect, zoomVars,
                  radarScene, sortOrder, plotSelectedMetrics, draggedMetric,
                  dragPosition >>

\* mouseover on a feature of the map: without a row the handler returns,
\* with a row it shows the tooltip of the map; the selection state is not
\* touched either way
MapHover(hasRow) ==
  /\ Ready
  /\ mapOnStateSelect.mounted
  /\ IF hasRow
       THEN TopoFeatureIds \cap dataByFipsKeys(stateData) # {}
       ELSE TopoFeatureIds \ dataByFipsKeys(stateData) # {}
  /\ lastOp' = Op(IF hasRow THEN "hover" ELSE "hoverNoRow", "map", "", "")
  /\ noPick
  /\ UNCHANGED << loadStep, isLoading, error, stateData, topoData, metrics,
                  selectedMetrics, selectedMetric, selectedStates,
                  selectedRegion, multipleSelectionMode, visualizationMode,
                  mapOnStateSelect, zoomVars,
                  radarScene, sortOrder, plotSelectedMetrics, draggedMetric,
                  dragPosition >>

\* what a zoom handler of the map leaves alone: everything but the
\* transform and the ref
zoomStep(kind) ==
  /\ Ready
  /\ mapOnStateSelect.mounted
  /\ zoomGestures < MaxGestures
  /\ zoomGestures' = zoomGestures + 1
  /\ lastOp' = Op(kind, "map", "", "")
  /\ noPick
  /\ UNCHANGED << loadStep, isLoading, error, stateData, topoData, metrics,
                  selectedMetrics, selectedMetric, selectedStates,
                  selectedRegion, multipleSelectionMode, visualizationMode,
                  mapOnStateSelect, radarScene, sortOrder, plotSelectedMetrics,
                  draggedMetric, dragPosition >>

\* the + and - buttons: zoom.scaleBy(1.3), zoom.scaleBy(0.7); the zoom event
\* stores the transform in the ref
ZoomButton(k) ==
  /\ zoomStep("zoomBy")
  /\ zoomTransform' = scaleBy(zoomTransform, k)
  /\ zoomTransformRef' = scaleBy(zoomTransform, k)

\* a drag of the map by dx pixels
ZoomPan(dx) ==
  /\ zoomStep("pan")
  /\ zoomTransform' = translateBy(zoomTransform, dx)
  /\ zoomTransformRef' = translateBy(zoomTransform, dx)

\* the reset button and the double click: zoom.transform to d3.zoomIdentity,
\* and the ref is set to d3.zoomIdentity
ZoomReset ==
  /\ zoomStep("zoomReset")
  /\ zoomTransform' = zoomIdentity
  /\ zoomTransformRef' = zoomIdentity

\* the rows the Grouped Bar Chart of the advanced view is given
groupBarRows ==
  IF selectedRegion = NULL /\ Len(selectedStates) = 0
    THEN Slice(stateData, 10)
    ELSE [i \in DOMAIN selectedStates |-> selectedStates[i].data]

\* toggleSortOrder: the Sort button of the Grouped Bar Chart, which the chart
\* shows when it has rows
toggleSortOrder ==
  /\ Ready
  /\ visualizationMode = "advanced"
  /\ Len(groupBarRows) > 0
  /\ sortOrder' = IF sortOrder = "asc" THEN "desc" ELSE "asc"
  /\ lastOp' = Op("toggleSortOrder", "bar", "", "")
  /\ noPick
  /\ UNCHANGED << loadStep, isLoading, error, stateData, topoData, metrics,
                  selectedMetrics, selectedMetric, selectedStates,
                  selectedRegion, multipleSelectionMode, visualizationMode,
                  mapOnStateSelect, zoomVars, radarScene,
                  plotSelectedMetrics, draggedMetric, dragPosition >>

\* click on a bar of the Grouped Bar Chart (state view or region view): the
\* chart re-registers its handler on every render, the id is the state code
BarClick(i) ==
  /\ Ready
  /\ visualizationMode = "advanced"
  /\ selectedMetric # ""
  /\ i \in DOMAIN groupBarRows
  /\ lastOp' = Op("pick", "bar", Get(groupBarRows[i], "state_id"),
                  Get(groupBarRows[i], "state_id"))
  /\ pickHistory(Get(groupBarRows[i], "state_id"), multipleSelectionMode)
  /\ handleStateSelect(multipleSelectionMode,
                       Get(groupBarRows[i], "state_id"), groupBarRows[i])

\* ------------------------------------------------------------------------
\* Selection mode, clearing, regions
\* ------------------------------------------------------------------------

\* history kept by a region select
regionHistory == prevSelected' = selectedStates /\ twice' = NoTwice

\* variant of toggleSelectionMode: switching to Single keeps only the first
\* selected state
toggleSelectionMode_Truncate ==
  /\ Ready
  /\ mapOnStateSelect.mounted
  /\ multipleSelectionMode' = ~multipleSelectionMode
  /\ selectedStates' = IF multipleSelectionMode
                         THEN Slice(selectedStates, 1)
                         ELSE selectedStates
  /\ lastOp' = Op("toggleSelectionMode", "map", "", "")
  /\ noPick
  /\ UNCHANGED << loadStep, isLoading, error, stateData, topoData, metrics,
                  selectedMetrics, selectedMetric, selectedRegion,
                  visualizationMode >>
  /\ mapEffect(multipleSelectionMode)
  /\ chartEffects

\* toggleSelectionMode: the button lives in the Choropleth Map
toggleSelectionMode ==
  /\ Ready
  /\ mapOnStateSelect.mounted
  /\ multipleSelectionMode' = ~multipleSelectionMode
  /\ lastOp' = Op("toggleSelectionMode", "map", "", "")
  /\ noPick
  /\ UNCHANGED << loadStep, isLoading, error, stateData, topoData, metrics,
                  selectedMetrics, selectedMetric, selectedStates,
                  selectedRegion, visualizationMode >>
  /\ mapEffect(FALSE)
  /\ chartEffects

\* variant of clearSelectionEffect: the region is reset, the selected states
\* are kept
clearSelectionEffect_KeepStates ==
  /\ selectedRegion' = NULL
  /\ UNCHANGED selectedStates

\* the state changes of clearSelection
clearSelectionEffect ==
  /\ selectedStates' = <<>>
  /\ selectedRegion' = NULL

\* clearSelection: the button lives in the Choropleth Map
clearSelection ==
  /\ Ready
  /\ mapOnStateSelect.mounted
  /\ clearSelectionEffect
  /\ lastOp' = Op("clearSelection", "map", "", "")
  /\ noPick
  /\ UNCHANGED << loadStep, isLoading, error, stateData, topoData, metrics,
                  selectedMetrics, selectedMetric, multipleSelectionMode,
                  visualizationMode >>
  /\ mapEffect(TRUE)
  /\ chartEffects

\* the "State View" button: setSelectedRegion(null); clearSelection()
StateViewButton ==
  /\ Ready
  /\ visualizationMode = "advanced"
  /\ selectedRegion' = NULL
  /\ clearSelectionEffect
  /\ lastOp' = Op("clearSelection", "stateView", "", "")
  /\ noPick
  /\ UNCHANGED << loadStep, isLoading, error, stateData, topoData, metrics,
                  selectedMetrics, selectedMetric, multipleSelectionMode,
                  visualizationMode >>
  /\ mapEffect(TRUE)
  /\ chartEffects

\* variant of handleRegionSelect: the region's states are added to the
\* selection instead of replacing it
handleRegionSelect_Append(region, states) ==
  /\ selectedRegion' = region
  /\ selectedStates' = selectedStates \o selectedRegionStates(states)

\* the state changes of handleRegionSelect(region, states)
handleRegionSelect(region, states) ==
  /\ selectedRegion' = region
  /\ selectedStates' = selectedRegionStates(states)

\* the "Region View" button: with no region selected it selects Northeast
RegionViewButton ==
  /\ Ready
  /\ visualizationMode = "advanced"
  /\ selectedRegion = NULL
  /\ handleRegionSelect("Northeast",
                        regionStateData(stateData, regions.Northeast))
  /\ lastOp' = Op("selectRegion", "regionView", "Northeast", "")
  /\ regionHistory
  /\ UNCHANGED << loadStep, isLoading, error, stateData, topoData, metrics,
                  selectedMetrics, selectedMetric, multipleSelectionMode,
                  visualizationMode >>
  /\ mapEffect(TRUE)
  /\ chartEffects

\* the "Region View" button with a region selected: the handler does
\* nothing
RegionViewButtonActive ==
  /\ Ready
  /\ visualizationMode = "advanced"
  /\ selectedRegion # NULL
  /\ lastOp' = Op("regionViewActive", "regionView", "", "")
  /\ noPick
  /\ UNCHANGED << loadStep, isLoading, error, stateData, topoData, metrics,
                  selectedMetrics, selectedMetric, selectedStates,
                  selectedRegion, multipleSelectionMode, visualizationMode,
                  mapOnStateSelect, zoomVars, radarScene, sortOrder,
                  plotSelectedMetrics, draggedMetric, dragPosition >>

\* the Regional Map is mounted
RegionalMapMounted ==
  /\ Ready
  /\ visualizationMode = "advanced"
  /\ topoData # NULL
  /\ selectedRegion # NULL

\* the Regional Map draws the boundary of a region some feature belongs to
regionHasFeature(statesList) ==
  \E f \in TopoFeatureIds :
    f \in DOMAIN fipsToStateMap /\ Includes(statesList, fipsToStateMap[f])

\* the regions whose boundary the Regional Map draws
drawnRegions ==
  {r \in RegionNames : regionHasFeature(regionsRegionalMap[r])}

\* click on the boundary of a region in the Regional Map
RegionPathClick(regionName) ==
  /\ RegionalMapMounted
  /\ regionName \in drawnRegions
  /\ handleRegionSelect(regionName,
                        regionStateData(stateData,
                                        regionsRegionalMap[regionName]))
  /\ lastOp' = Op("selectRegion", "regionalMap", regionName, "")
  /\ regionHistory
  /\ UNCHANGED << loadStep, isLoading, error, stateData, topoData, metrics,
                  selectedMetrics, selectedMetric, multipleSelectionMode,
                  visualizationMode >>
  /\ mapEffect(TRUE)
  /\ chartEffects

\* ------------------------------------------------------------------------
\* Metrics and visualization mode
\* ------------------------------------------------------------------------

\* selectedStates.map((s) => s.data)
selectedRows == [i \in DOMAIN selectedStates |-> selectedStates[i].data]

\* the metrics whose marks a mounted chart offers for a click
clickableMetrics(view) ==
  CASE view = "stateBar" ->
         IF visualizationMode = "default" /\ Len(selectedStates) = 1
           THEN Range(stateBarMetrics(selectedStates[1].data))
           ELSE {}
    [] view = "comparison" ->
         IF visualizationMode = "default" /\ Len(selectedStates) > 1
           THEN Range(metricsToShow(TRUE, selectedRows))
                  \cup Range(metricsToShow(FALSE, selectedRows))
           ELSE {}
    [] view = "radar" ->
         IF /\ visualizationMode = "advanced"
            /\ Len(selectedStates) > 0
           THEN Range(selectedMetrics)
           ELSE {}

MetricViews == {"stateBar", "comparison", "radar"}

\* handleMetricSelect, called by a click in a metric chart
handleMetricSelect(view, metric) ==
  /\ Ready
  /\ metric \in clickableMetrics(view)
  /\ selectedMetric' = metric
  /\ lastOp' = Op("selectMetric", view, metric, "")
  /\ noPick
  /\ UNCHANGED << loadStep, isLoading, error, stateData, topoData, metrics,
                  selectedMetrics, selectedStates, selectedRegion,
                  multipleSelectionMode, visualizationMode >>
  /\ mapEffect(metric # selectedMetric)
  /\ chartEffects

\* the "Selected Metrics" chips are shown
chipsMounted ==
  /\ Ready
  /\ visualizationMode = "advanced"
  /\ (selectedRegion # NULL \/ Len(selectedStates) > 0)

\* click on the chip of a metric (one chip per catalog metric)
MetricChipClick(i) ==
  /\ chipsMounted
  /\ i \in DOMAIN metrics
  /\ selectedMetrics' = nextSelectedMetrics(selectedMetrics, metrics[i])
  /\ lastOp' = Op("toggleMultiMetric", "chips", metrics[i], "")
  /\ noPick
  /\ UNCHANGED << loadStep, isLoading, error, stateData, topoData, metrics,
                  selectedMetric, selectedStates, selectedRegion,
                  multipleSelectionMode, visualizationMode >>
  /\ mapEffect(FALSE)
  /\ chartEffects

toggleVisualizationMode ==
  /\ Ready
  /\ visualizationMode' =
       IF visualizationMode = "default" THEN "advanced" ELSE "default"
  /\ lastOp' = Op("toggleVisualizationMode", "", "", "")
  /\ noPick
  /\ UNCHANGED << loadStep, isLoading, error, stateData, topoData, metrics,
                  selectedMetrics, selectedMetric, selectedStates,
                  selectedRegion, multipleSelectionMode >>
  /\ mapEffect(FALSE)
  /\ chartEffects

\* ------------------------------------------------------------------------
\* Parallel Coordinates Plot: metric chips and axis reordering
\* ------------------------------------------------------------------------

\* Array.prototype.indexOf, counting from 0, -1 when absent
indexOf(s, x) ==
  IF Includes(s, x)
    THEN (CHOOSE i \in DOMAIN s : s[i] = x /\ \A j \in 1..(i - 1) : s[j] # x) - 1
    ELSE -1

\* the place Array.prototype.splice starts at: a negative start counts from
\* the end, a start beyond the end is the end
spliceStart(s, start) ==
  IF start < 0
    THEN (IF Len(s) + start < 0 THEN 0 ELSE Len(s) + start)
    ELSE (IF start > Len(s) THEN Len(s) ELSE start)

\* s after s.splice(start, 1)
spliceRemove(s, start) ==
  SubSeq(s, 1, spliceStart(s, start))
    \o SubSeq(s, spliceStart(s, start) + 2, Len(s))

\* s after s.splice(start, 0, x)
spliceInsert(s, start, x) ==
  SubSeq(s, 1, spliceStart(s, start)) \o << x >>
    \o SubSeq(s, spliceStart(s, start) + 1, Len(s))

\* newOrder of onDrop: the dragged metric taken out and put in at the target
newOrder(sel, dragged, targetIndex) ==
  spliceInsert(spliceRemove(sel, indexOf(sel, dragged)), targetIndex, dragged)

\* what a handler of the plot leaves alone: the state of the compositor and
\* of the other charts
plotStepOn(kind, metric) ==
  /\ PlotMounted(isLoading, error, visualizationMode)
  /\ lastOp' = Op(kind, "plot", metric, "")
  /\ noPick
  /\ UNCHANGED << loadStep, isLoading, error, stateData, topoData, metrics,
                  selectedMetrics, selectedMetric, selectedStates,
                  selectedRegion, multipleSelectionMode, visualizationMode,
                  mapOnStateSelect, zoomVars,
                  radarScene, sortOrder >>

plotStep(kind) == plotStepOn(kind, "")

\* toggleMetric: the x of a chip, or a click on an available metric; the
\* initialisation effect then refills a list left empty
toggleMetric(metric) ==
  /\ plotStepOn("toggleMetric", metric)
  /\ Includes(metrics, metric)
  /\ plotSelectedMetrics' =
       plotInitEffect(nextSelectedMetrics(plotSelectedMetrics, metric), metrics)
  /\ UNCHANGED << draggedMetric, dragPosition >>

\* dragstart on the chip of an axis
startDrag(metric) ==
  /\ plotStep("startDrag")
  /\ Includes(plotSelectedMetrics, metric)
  /\ draggedMetric' = metric
  /\ UNCHANGED << plotSelectedMetrics, dragPosition >>

\* dragover on the chip at `index` (counted from 0)
onDragOver(index) ==
  /\ plotStep("onDragOver")
  /\ index + 1 \in DOMAIN plotSelectedMetrics
  /\ dragPosition' = index + 1
  /\ UNCHANGED << plotSelectedMetrics, draggedMetric >>

\* dragend on a chip: wired in the later revision of the plot only
onDragEnd ==
  /\ plotStep("onDragEnd")
  /\ draggedMetric' = NULL
  /\ dragPosition' = 0
  /\ UNCHANGED plotSelectedMetrics

\* drop on the chip at targetIndex (counted from 0). The chips accept every
\* drag (their dragover handler calls preventDefault), so a drop can arrive
\* without a dragstart on a chip before it.
onDrop(targetIndex) ==
  /\ plotStep("onDrop")
  /\ targetIndex + 1 \in DOMAIN plotSelectedMetrics
  /\ IF draggedMetric # NULL
       THEN /\ plotSelectedMetrics' =
                 newOrder(plotSelectedMetrics, draggedMetric, targetIndex)
            /\ draggedMetric' = NULL
            /\ dragPosition' = 0
       ELSE UNCHANGED plotVars

\* pointer drag of the label of an axis (later revision of the plot):
\* mousedown on the label of `metric`, mouseup nearest to the axis at
\* targetIndex; an overlay covers the page in between
axisLabelDrag(metric, targetIndex) ==
  /\ plotStep("axisLabelDrag")
  /\ Includes(plotSelectedMetrics, metric)
  /\ targetIndex + 1 \in DOMAIN plotSelectedMetrics
  /\ plotSelectedMetrics' =
       IF targetIndex # indexOf(plotSelectedMetrics, metric)
         THEN spliceInsert(spliceRemove(plotSelectedMetrics,
                                        indexOf(plotSelectedMetrics, metric)),
                           targetIndex, metric)
         ELSE plotSelectedMetrics
  /\ draggedMetric' = NULL
  /\ dragPosition' = 0

\* ------------------------------------------------------------------------
\* Specification
\* ------------------------------------------------------------------------

Next ==
  \/ \E ok \in BOOLEAN, n \in 1..MaxRows : LoadCSV(ok, n)
  \/ \E ok \in BOOLEAN : LoadTopo(ok)
  \/ \E f \in TopoFeatureIds \cap dataByFipsKeys(stateData) : MapClick(f)
  \/ MapClickNoRow
  \/ \E i \in 1..(2 * MaxRows) : BarClick(i)
  \/ toggleSelectionMode
  \/ clearSelection
  \/ StateViewButton
  \/ RegionViewButton
  \/ \E r \in RegionNames : RegionPathClick(r)
  \/ \E v \in MetricViews, m \in Range(metrics) : handleMetricSelect(v, m)
  \/ \E i \in DOMAIN metrics : MetricChipClick(i)
  \/ toggleVisualizationMode

Spec == Init /\ [][Next]_vars

\* the dashboard over data files of different widths, in the standard view
NextCatalog ==
  \/ \E ok \in BOOLEAN, k \in 1..MaxMetrics, layout \in Layouts,
        n \in 1..MaxRows : LoadCSVWide(ok, k, layout, n)
  \/ \E ok \in BOOLEAN : LoadTopo(ok)
  \/ \E f \in TopoFeatureIds \cap dataByFipsKeys(stateData) : MapClick(f)
  \/ toggleSelectionMode
  \/ \E v \in MetricViews, m \in Range(metrics) : handleMetricSelect(v, m)

SpecCatalog == Init /\ [][NextCatalog]_vars

\* the dashboard around the Parallel Coordinates Plot
NextPlot ==
  \/ \E ok \in BOOLEAN, k \in 1..MaxAxes : LoadCSVWide(ok, k, "idsFirst", 1)
  \/ \E ok \in BOOLEAN : LoadTopo(ok)
  \/ toggleVisualizationMode
  \/ \E m \in Range(metrics) : toggleMetric(m)
  \/ \E m \in Range(metrics) : startDrag(m)
  \/ \E i \in 0..(MaxAxes - 1) : onDragOver(i)
  \/ onDragEnd
  \/ \E i \in 0..(MaxAxes - 1) : onDrop(i)
  \/ \E m \in Range(metrics), i \in 0..(MaxAxes - 1) : axisLabelDrag(m, i)

SpecPlot == Init /\ [][NextPlot]_vars

\* the widths of the data files of SpecAxes: up to MaxAxes metrics, and one
\* metric more than the initialisation effect takes
AxesWidths == (1..MaxAxes) \cup {FirstFive + 1}

\* the dashboard around the axis list of the Parallel Coordinates Plot
NextAxes ==
  \/ \E ok \in BOOLEAN, k \in AxesWidths : LoadCSVWide(ok, k, "idsFirst", 1)
  \/ \E ok \in BOOLEAN : LoadTopo(ok)
  \/ toggleVisualizationMode
  \/ \E m \in Range(metrics) : toggleMetric(m)
  \/ \E m \in Range(metrics) : startDrag(m)
  \/ \E i \in 0..FirstFive : onDrop(i)

SpecAxes == Init /\ [][NextAxes]_vars

\* the dashboard around the Grouped Bar Chart, over data files that hold up
\* to MaxRows + 1 rows of the pool
NextBars ==
  \/ \E ok \in BOOLEAN, ids \in SUBSET RowPoolIds :
       /\ Cardinality(ids) \in 1..(MaxRows + 1)
       /\ LoadCSVOf(ok, ids)
  \/ \E ok \in BOOLEAN : LoadTopo(ok)
  \/ toggleVisualizationMode
  \/ toggleSelectionMode
  \/ \E i \in 1..(MaxRows + 1) : BarClick(i)
  \/ clearSelection
  \/ \E v \in MetricViews, m \in Range(metrics) : handleMetricSelect(v, m)
  \/ toggleSortOrder

SpecBars == Init /\ [][NextBars]_vars

\* the state codes of the rows of RadarRowPool
RadarRowPoolIds ==
  {Get(RadarRowPool[i], "state_id") : i \in DOMAIN RadarRowPool}

\* the dashboard around the Radar Chart, over data files with values that
\* are not numbers and with a negative income
NextRadar ==
  \/ \E ok \in BOOLEAN, ids \in SUBSET RadarRowPoolIds :
       /\ Cardinality(ids) \in 1..MaxRows
       /\ LoadCSVFrom(RadarRowPool, ok, ids)
  \/ \E ok \in BOOLEAN : LoadTopo(ok)
  \/ toggleVisualizationMode
  \/ RegionViewButton
  \/ StateViewButton
  \/ \E i \in 1..MaxRows : BarClick(i)
  \/ \E i \in DOMAIN metrics : MetricChipClick(i)
  \/ clearSelection

SpecRadar == Init /\ [][NextRadar]_vars

\* the dashboard around the Choropleth Map, over data files that hold any
\* of the rows of the pool
NextMap ==
  \/ \E ok \in BOOLEAN, ids \in SUBSET RowPoolIds :
       /\ Cardinality(ids) \in 1..MaxRows
       /\ LoadCSVOf(ok, ids)
  \/ \E ok \in BOOLEAN : LoadTopo(ok)
  \/ \E f \in TopoFeatureIds \cap dataByFipsKeys(stateData) : MapClick(f)
  \/ MapClickNoRow
  \/ \E hasRow \in BOOLEAN : MapHover(hasRow)
  \/ toggleSelectionMode
  \/ \E v \in MetricViews, m \in Range(metrics) : handleMetricSelect(v, m)
  \/ toggleVisualizationMode

SpecMap == Init /\ [][NextMap]_vars

\* the dashboard around the zoom of the Choropleth Map
NextZoom ==
  \/ \E ok \in BOOLEAN : LoadCSV(ok, 1)
  \/ \E ok \in BOOLEAN : LoadTopo(ok)
  \/ \E f \in TopoFeatureIds \cap dataByFipsKeys(stateData) : MapClick(f)
  \/ \E v \in MetricViews, m \in Range(metrics) : handleMetricSelect(v, m)
  \/ clearSelection
  \/ toggleVisualizationMode
  \/ \E k \in {1300, 700} : ZoomButton(k)
  \/ \E dx \in {0 - 40, 40} : ZoomPan(dx)
  \/ ZoomReset

SpecZoom == Init /\ [][NextZoom]_vars

\* the dashboard around the switches between the views and the maps
NextViews ==
  \/ \E ok \in BOOLEAN, n \in 1..MaxRows : LoadCSV(ok, n)
  \/ \E ok \in BOOLEAN : LoadTopo(ok)
  \/ \E f \in TopoFeatureIds \cap dataByFipsKeys(stateData) : MapClick(f)
  \/ \E i \in 1..(2 * MaxRows) : BarClick(i)
  \/ clearSelection
  \/ StateViewButton
  \/ RegionViewButton
  \/ RegionViewButtonActive
  \/ \E r \in RegionNames : RegionPathClick(r)
  \/ toggleVisualizationMode

SpecViews == Init /\ [][NextViews]_vars

\* ------------------------------------------------------------------------
\* Properties of the selection state
\* ------------------------------------------------------------------------

\* the row of the dataset with the given state code
RowOf(sid) ==
  stateData[CHOOSE i \in DOMAIN stateData : Get(stateData[i], "state_id") = sid]

\* the entry the last pick was issued for
PickedEntry == SelectedState(lastOp.id, RowOf(lastOp.sid))

IdsOf(sel) == {sel[i].id : i \in DOMAIN sel}

\* a pick was the last transition and the current mode was Multiple / Single
PickedUnderMultiple == lastOp.kind = "pick" /\ lastOp.multi
PickedUnderSingle == lastOp.kind = "pick" /\ ~lastOp.multi

\* C1: a pick while the current mode is Multiple toggles membership: an id
\* that was selected is removed and the other entries keep their order, an
\* id that was not selected is appended at the end, whichever view picked.
C1_PickMultipleToggles ==
  PickedUnderMultiple =>
    selectedStates =
      IF lastOp.id \in IdsOf(prevSelected)
        THEN WithoutId(prevSelected, lastOp.id)
        ELSE prevSelected \o << PickedEntry >>

\* C2: a pick while the current mode is Single leaves exactly the picked
\* entry selected.
C2_PickSingleReplaces ==
  PickedUnderSingle => selectedStates = << PickedEntry >>

\* C3: after any pick no region is active.
C3_PickClearsRegion ==
  lastOp.kind = "pick" => selectedRegion = NULL

\* the entries of the rows of a region, in dataset order
RegionEntries(region) ==
  LET InRegion(d) == \E k \in DOMAIN regions[region] :
                        regions[region][k] = Get(d, "state_id")
      rows == SelectSeq(stateData, InRegion)
  IN  [i \in DOMAIN rows |-> [id |-> Get(rows[i], "state_id"), data |-> rows[i]]]

\* C4: whenever a region is active the selected states are exactly the rows
\* of the member states of that region.
C4_RegionDerivesSelection ==
  selectedRegion # NULL => selectedStates = RegionEntries(selectedRegion)

\* C5: a region select makes the region active and replaces the selection
\* by exactly the dataset rows of the member states of the region.
C5_SelectRegion ==
  lastOp.kind = "selectRegion" =>
    /\ selectedRegion = lastOp.id
    /\ selectedStates = RegionEntries(lastOp.id)
    /\ \A i \in DOMAIN prevSelected :
         Includes(selectedStates, prevSelected[i]) =>
           Includes(regions[lastOp.id], prevSelected[i].id)

\* a region with a member row was selected over a selection holding an
\* entry that did not survive
C5_Witness ==
  /\ lastOp.kind = "selectRegion"
  /\ Len(selectedStates) > 0
  /\ \E i \in DOMAIN prevSelected : ~Includes(selectedStates, prevSelected[i])

\* C6: clearSelection leaves no selected state and no active region, also
\* directly after a region select.
C6_ClearSelection ==
  lastOp.kind = "clearSelection" =>
    selectedStates = <<>> /\ selectedRegion = NULL

\* the selection was cleared directly after a region select
C6_Witness ==
  /\ lastOp.kind = "clearSelection"
  /\ lastOp.afterRegion
  /\ selectedStates = <<>>

\* C7: under Multiple, two picks of the same id in a row restore the set of
\* selected ids, and the other entries keep their relative order.
C7_PickTwiceInvolution ==
  twice.on =>
    /\ IdsOf(selectedStates) = IdsOf(twice.before)
    /\ WithoutId(selectedStates, lastOp.id) = WithoutId(twice.before, lastOp.id)

\* C8: no two selected states have the same id.
C8_UniqueIds ==
  \A i, j \in DOMAIN selectedStates :
    selectedStates[i].id = selectedStates[j].id => i = j

\* several states are selected, two of them the same row picked from the map
\* (FIPS code) and from a bar (state code)
C8_Witness ==
  /\ Len(selectedStates) >= 3
  /\ \E i, j \in DOMAIN selectedStates :
       i # j /\ selectedStates[i].data = selectedStates[j].data

FrameOps == {"selectMetric", "toggleMultiMetric", "toggleSelectionMode",
             "toggleVisualizationMode"}

SelectionOps == {"pick", "selectRegion", "clearSelection"}

\* C9: selectMetric, toggleMultiMetric, toggleSelectionMode and
\* toggleVisualizationMode leave the selected states and the active region
\* unchanged; only picks, region selects and clearSelection change them.
C9_SelectionFrame ==
  [][ /\ lastOp'.kind \in FrameOps =>
           selectedStates' = selectedStates /\ selectedRegion' = selectedRegion
      /\ (selectedStates' # selectedStates \/ selectedRegion' # selectedRegion)
           => lastOp'.kind \in SelectionOps ]_vars

\* the mode was switched to Single and several states are still selected
C9_Witness ==
  /\ lastOp.kind = "toggleSelectionMode"
  /\ ~multipleSelectionMode
  /\ Len(selectedStates) > 1

\* C10: a metric chip removes its metric from the selected metrics if it is
\* there and appends it at the end otherwise; the selected metrics never
\* hold a metric twice nor a metric outside the catalog, and stay empty
\* when the catalog is empty.
C10_ToggleMultiMetric ==
  /\ [](/\ \A i, j \in DOMAIN selectedMetrics :
             selectedMetrics[i] = selectedMetrics[j] => i = j
        /\ \A i \in DOMAIN selectedMetrics :
             \E k \in DOMAIN metrics : metrics[k] = selectedMetrics[i]
        /\ (metrics = <<>> => selectedMetrics = <<>>))
  /\ [][ lastOp'.kind = "toggleMultiMetric" =>
           IF \E i \in DOMAIN selectedMetrics : selectedMetrics[i] = lastOp'.id
             THEN /\ \A i \in DOMAIN selectedMetrics' :
                       selectedMetrics'[i] # lastOp'.id
                  /\ Len(selectedMetrics') = Len(selectedMetrics) - 1
                  /\ \A i, j \in DOMAIN selectedMetrics :
                       /\ i < j
                       /\ selectedMetrics[i] # lastOp'.id
                       /\ selectedMetrics[j] # lastOp'.id
                       => \E a, b \in DOMAIN selectedMetrics' :
                            /\ a < b
                            /\ selectedMetrics'[a] = selectedMetrics[i]
                            /\ selectedMetrics'[b] = selectedMetrics[j]
             ELSE selectedMetrics' = selectedMetrics \o << lastOp'.id >> ]_vars

\* a metric was removed and selected again: it now stands at the end, after
\* a metric that follows it in the catalog
C10_Witness ==
  /\ lastOp.kind = "toggleMultiMetric"
  /\ Len(selectedMetrics) = 2
  /\ selectedMetrics[2] = metrics[1]
  /\ selectedMetrics[2] = lastOp.id

\* ------------------------------------------------------------------------
\* Properties of the bootstrap
\* ------------------------------------------------------------------------

\* C11: once the dashboard has left the loading state, the active metric is
\* a metric of the catalog (never the empty string).
C11_ActiveMetricValid ==
  ~isLoading => \E i \in DOMAIN metrics : metrics[i] = selectedMetric

\* a load has ended with the dataset or the topology missing
LoadFailed == loadStep = "done" /\ (stateData = <<>> \/ topoData = NULL)

\* C13: when the dataset load or the topology load fails, the dashboard ends
\* in the error state: an error message is set, no chart is mounted and the
\* normal view is never shown.
C13_LoadFailureTerminal ==
  LoadFailed =>
    /\ error # NULL
    /\ ~Ready
    /\ ~mapOnStateSelect.mounted
    /\ radarScene = NoRadar
    /\ plotSelectedMetrics = <<>>

\* C14: the dashboard leaves the loading state only when both loads have
\* completed; while it is loading no chart is mounted, and the only steps
\* are the completions of the loads, which leave the selected states, the
\* active region, the selection mode and the visualization mode unchanged.
C14_LoadingGate ==
  /\ [](~isLoading => loadStep = "done")
  /\ [](isLoading =>
         /\ ~mapOnStateSelect.mounted
         /\ radarScene = NoRadar
         /\ plotSelectedMetrics = <<>>
         /\ selectedStates = <<>>
         /\ selectedRegion = NULL)
  /\ [][ isLoading =>
           /\ lastOp'.kind \in {"loadCSV", "loadTopo"}
           /\ selectedStates' = selectedStates
           /\ selectedRegion' = selectedRegion
           /\ multipleSelectionMode' = multipleSelectionMode
           /\ visualizationMode' = visualizationMode ]_vars

\* the dataset has arrived, the topology has not: the dashboard is loading
C14_Witness ==
  /\ isLoading
  /\ loadStep = "fetchTopo"
  /\ Len(stateData) > 0

\* C12: after a bootstrap in which both loads succeeded, the active metric
\* is the first metric of the catalog, the selected metrics are the first
\* five metrics of the catalog (all of them if there are fewer), in catalog
\* order, no state is selected, no region is active, the selection mode is
\* Single and the visualization mode is the standard one.
C12_BootstrapDefaults ==
  (lastOp.kind = "loadTopo" /\ stateData # <<>> /\ topoData # NULL) =>
    /\ metrics # <<>>
    /\ selectedMetric = metrics[1]
    /\ Len(selectedMetrics) = IF Len(metrics) < 5 THEN Len(metrics) ELSE 5
    /\ \A i \in DOMAIN selectedMetrics : selectedMetrics[i] = metrics[i]
    /\ selectedStates = <<>>
    /\ selectedRegion = NULL
    /\ ~multipleSelectionMode
    /\ visualizationMode = "default"
    /\ ~isLoading
    /\ error = NULL

\* a file with more than five metric columns was loaded
C12_Witness ==
  /\ lastOp.kind = "loadTopo"
  /\ topoData # NULL
  /\ Len(metrics) > 5
  /\ Len(selectedMetrics) = 5
  /\ selectedMetrics[5] = metrics[5]

\* ------------------------------------------------------------------------
\* Properties of the metric catalog
\* ------------------------------------------------------------------------

\* C18: the catalog of the compositor is the keys of the first row in source
\* order without the three identifier columns, and the per-state bar chart
\* and the Comparison chart, whenever they are mounted, read the same
\* sequence off the rows they are given.
C18_SameCatalog ==
  (~isLoading /\ stateData # <<>>) =>
    /\ Range(metrics) =
         Range(Keys(stateData[1])) \ {"Geo_ID", "State", "state_id"}
    /\ \A a, b \in DOMAIN metrics :
         a < b => \E x, y \in DOMAIN stateData[1] :
                    /\ x < y
                    /\ stateData[1][x][1] = metrics[a]
                    /\ stateData[1][y][1] = metrics[b]
    /\ (visualizationMode = "default" /\ Len(selectedStates) = 1)
         => stateBarMetrics(selectedStates[1].data) = metrics
    /\ (visualizationMode = "default" /\ Len(selectedStates) > 1)
         => comparisonAllMetrics(selectedRows) = metrics

\* the per-state bar chart shows the second row of a file whose header ends
\* with the state_id column and holds more than five metrics
C18_Witness ==
  /\ visualizationMode = "default"
  /\ Len(selectedStates) = 1
  /\ Len(stateData) > 1
  /\ selectedStates[1].data = stateData[2]
  /\ Len(metrics) > 5
  /\ stateData[1][Len(stateData[1])][1] = "state_id"

\* ------------------------------------------------------------------------
\* Properties of the Parallel Coordinates Plot
\* ------------------------------------------------------------------------

\* t holds exactly the elements of s, each once
IsPermutation(t, s) ==
  /\ Len(t) = Len(s)
  /\ Range(t) = Range(s)
  /\ \A i, j \in DOMAIN t : t[i] = t[j] => i = j

\* C15: a drop on a chip and a pointer drag of an axis label leave the axes
\* a permutation of what they were: the same metrics, each once.
C15_ReorderIsPermutation ==
  [][ lastOp'.kind \in {"onDrop", "axisLabelDrag"} =>
        IsPermutation(plotSelectedMetrics', plotSelectedMetrics) ]_vars

\* ------------------------------------------------------------------------
\* Properties of the scales and of the displayed values
\* ------------------------------------------------------------------------

Broadband == "% Households with Broadband"

Income == "Median Household Income"

\* the rows whose value for the metric parses
parsedRows(rows, metric) ==
  LET Parses(row) == ~isNaN(parsedValue(row, metric))
  IN  SelectSeq(rows, Parses)

\* every parsed value of the rows lies within the domain
WithinDomain(dom, rows, metric) ==
  \A i \in DOMAIN rows :
    ~isNaN(parsedValue(rows[i], metric)) =>
      /\ dom.lo <= parsedValue(rows[i], metric).v
      /\ parsedValue(rows[i], metric).v <= dom.hi

\* the rows {CA: "85.2", NY: "abc"} and the domain [85.2, 85.2]
ExampleRows == << RowPool[4], RowPool[1] >>

ExampleDomain ==
  [ lo |-> parseFloat(<< "8", "5", ".", "2" >>).v,
    hi |-> parseFloat(<< "8", "5", ".", "2" >>).v ]

\* C16: the domain a mounted chart computes for a metric is the one it
\* computes from the rows whose value parses alone (a value that does not
\* parse is not counted as 0), and it holds every parsed value; for the rows
\* {CA: "85.2", NY: "abc"} the chart computes [85.2, 85.2]. Choropleth Map,
\* Grouped Bar Chart and Parallel Coordinates Plot.
C16_DomainFromParsed ==
  /\ (mapOnStateSelect.mounted /\ stateData # <<>>) =>
       /\ choroplethDomain(stateData, selectedMetric)
            = choroplethDomain(parsedRows(stateData, selectedMetric),
                               selectedMetric)
       /\ WithinDomain(choroplethDomain(stateData, selectedMetric),
                       stateData, selectedMetric)
       /\ choroplethDomain(ExampleRows, Broadband) = ExampleDomain
  /\ (Ready /\ visualizationMode = "advanced" /\ groupBarRows # <<>>) =>
       /\ groupBarDomain(groupBarRows, selectedMetric)
            = groupBarDomain(parsedRows(groupBarRows, selectedMetric),
                             selectedMetric)
       /\ WithinDomain(groupBarDomain(groupBarRows, selectedMetric),
                       groupBarRows, selectedMetric)
       /\ groupBarDomain(ExampleRows, Broadband) = ExampleDomain
  /\ (PlotMounted(isLoading, error, visualizationMode) /\ stateData # <<>>) =>
       /\ \A k \in DOMAIN plotSelectedMetrics :
            /\ plotDomain(stateData, plotSelectedMetrics[k])
                 = plotDomain(parsedRows(stateData, plotSelectedMetrics[k]),
                              plotSelectedMetrics[k])
            /\ WithinDomain(plotDomain(stateData, plotSelectedMetrics[k]),
                            stateData, plotSelectedMetrics[k])
       /\ plotDomain(ExampleRows, Broadband) = ExampleDomain

\* the number a displayed text spells, the currency sign and the group
\* separators left out
displayedNumber(text) ==
  LET IsNumberChar(c) == c \notin {"$", ","}
  IN  parseFloat(SelectSeq(text, IsNumberChar))

\* the text spells, as a dollar amount, the whole part of the row's parsed
\* income, not the thousandth of it
ShownUnscaled(row, text) ==
  ~isNaN(parsedValue(row, Income)) =>
    /\ text[1] = "$"
    /\ displayedNumber(text).v =
         parsedValue(row, Income).v - (parsedValue(row, Income).v % Thousandths)
    /\ (parsedValue(row, Income).v >= Thousandths =>
          displayedNumber(text) # Num(parsedValue(row, Income).v \div 1000))

\* the row's income is drawn at a thousandth of its parsed value
DrawnScaled(row, plotted) ==
  ~isNaN(parsedValue(row, Income)) =>
    plotted = Num(parsedValue(row, Income).v \div 1000)

\* C17: the per-state bar chart, the Comparison chart and the Radar Chart,
\* which draw the income next to percentages, draw it at the parsed value
\* divided by 1000; every tooltip and value label of a chart shows the text
\* made from the original string: "62843" is drawn at 62.843 and shown as
\* "$62,843"; no shown text spells the scaled number.
C17_IncomeScaledShownUnscaled ==
  /\ stateBarChartValue(RowPool[4], Income)
       = parseFloat(<< "6", "2", ".", "8", "4", "3" >>)
  /\ comparisonBarValue(RowPool[4], Income)
       = parseFloat(<< "6", "2", ".", "8", "4", "3" >>)
  /\ stateBarTooltip(RowPool[4], Income)
       = << "$", "6", "2", ",", "8", "4", "3" >>
  /\ stateBarValueLabel(RowPool[4], Income)
       = << "$", "6", "2", ",", "8", "4", "3" >>
  /\ comparisonTooltip(RowPool[4], Income)
       = << "$", "6", "2", ",", "8", "4", "3" >>
  /\ (Ready /\ visualizationMode = "default" /\ Len(selectedStates) = 1
        /\ Includes(stateBarMetrics(selectedStates[1].data), Income)) =>
       /\ DrawnScaled(selectedStates[1].data,
                      stateBarChartValue(selectedStates[1].data, Income))
       /\ ShownUnscaled(selectedStates[1].data,
                        stateBarTooltip(selectedStates[1].data, Income))
       /\ ShownUnscaled(selectedStates[1].data,
                        stateBarValueLabel(selectedStates[1].data, Income))
  /\ (Ready /\ visualizationMode = "default" /\ Len(selectedStates) > 1
        /\ Includes(metricsToShow(FALSE, selectedRows), Income)) =>
       \A i \in DOMAIN selectedRows :
         /\ DrawnScaled(selectedRows[i],
                        comparisonBarValue(selectedRows[i], Income))
         /\ ShownUnscaled(selectedRows[i],
                          comparisonTooltip(selectedRows[i], Income))
  /\ (radarScene = RadarDrawn /\ Includes(selectedMetrics, Income)) =>
       \A i \in DOMAIN selectedRows :
         DrawnScaled(selectedRows[i], radarValue(selectedRows[i], Income))
  /\ (Ready /\ visualizationMode = "advanced" /\ selectedMetric = Income) =>
       \A i \in DOMAIN groupBarRows :
         ShownUnscaled(groupBarRows[i], groupBarTooltip(groupBarRows[i], Income))
  /\ (PlotMounted(isLoading, error, visualizationMode)
        /\ Includes(plotSelectedMetrics, Income)) =>
       \A i \in DOMAIN stateData :
         ShownUnscaled(stateData[i], plotTooltip(stateData[i], Income))

\* the per-state bar chart shows New York: income "72108", shown "$72,108"
C17_Witness ==
  /\ Ready
  /\ visualizationMode = "default"
  /\ Len(selectedStates) = 1
  /\ stateBarTooltip(selectedStates[1].data, Income)
       = << "$", "7", "2", ",", "1", "0", "8" >>
  /\ stateBarChartValue(selectedStates[1].data, Income)
       = parseFloat(<< "7", "2", ".", "1", "0", "8" >>)

\* the rows of the dataset the map joins to a feature
FeatureRows(featureId) ==
  { i \in DOMAIN stateData :
      /\ Get(stateData[i], "state_id") \in DOMAIN stateToFipsTable
      /\ stateToFipsTable[Get(stateData[i], "state_id")] = featureId }

\* C20: on the mounted map a feature without a row of the dataset (its
\* state is not in the file, or the code table does not list it), and a
\* feature whose row has no parsable value for the active metric, has the
\* neutral fill; every other feature has one of the nine palette colours;
\* a click or a mouseover on a feature without a row changes nothing of the
\* selection state.
C20_UnknownFeatureNeutral ==
  /\ [](mapOnStateSelect.mounted =>
         \A f \in TopoFeatureIds :
           IF \/ FeatureRows(f) = {}
              \/ \E i \in FeatureRows(f) :
                   /\ \A j \in FeatureRows(f) : j <= i
                   /\ isNaN(parsedValue(stateData[i], selectedMetric))
             THEN featureFill(stateData, selectedMetric, f) = "#e5e7eb"
             ELSE \E c \in DOMAIN schemeBlues9 :
                    schemeBlues9[c] = featureFill(stateData, selectedMetric, f))
  /\ [][ lastOp'.kind \in {"clickNoRow", "hoverNoRow"} =>
           /\ selectedStates' = selectedStates
           /\ selectedRegion' = selectedRegion
           /\ selectedMetric' = selectedMetric
           /\ selectedMetrics' = selectedMetrics
           /\ multipleSelectionMode' = multipleSelectionMode
           /\ visualizationMode' = visualizationMode ]_vars

\* the file holds New York ("abc") and California ("85.2"), broadband is
\* the active metric and California is selected: a feature without a row
\* was clicked; New York and Pennsylvania have the neutral fill, California
\* a palette colour
C20_Witness ==
  /\ lastOp.kind = "clickNoRow"
  /\ mapOnStateSelect.mounted
  /\ selectedMetric = Broadband
  /\ Len(stateData) = 2
  /\ Len(selectedStates) = 1
  /\ featureFill(stateData, selectedMetric, "36") = "#e5e7eb"
  /\ featureFill(stateData, selectedMetric, "42") = "#e5e7eb"
  /\ featureFill(stateData, selectedMetric, "06") \in Range(schemeBlues9)


\* ------------------------------------------------------------------------
\* What a mounted renderer shows
\* ------------------------------------------------------------------------

\* Grouped Bar Chart: the message replaces the svg when there are no rows;
\* with rows and no metric the effect returns and the svg stays undrawn
groupBarShows(statesData, metric) ==
  IF Len(statesData) = 0
    THEN "placeholder"
    ELSE IF metric = "" THEN "canvas" ELSE "scene"

\* Comparison chart: the message replaces the svg when there are no rows
comparisonShows(statesData) ==
  IF Len(statesData) = 0 THEN "placeholder" ELSE "scene"

\* Choropleth Map: the features are drawn whatever the rows are
choroplethShows(data, topo) ==
  IF topo = NULL THEN "canvas" ELSE "scene"

\* Parallel Coordinates Plot: the effect returns before it draws when there
\* are no rows or no axes; the component has no message
plotShows(statesData, axes) ==
  IF Len(statesData) = 0 \/ Len(axes) = 0 THEN "canvas" ELSE "scene"

\* C19: a mounted renderer whose input is empty (no rows, no selected
\* states, or no metrics) shows a placeholder message, never an empty canvas
\* and never the scene drawn for an earlier input: Choropleth Map, Grouped
\* Bar Chart, Comparison chart, Radar Chart and Parallel Coordinates Plot.
C19_PlaceholderForEmptyInput ==
  /\ (mapOnStateSelect.mounted /\ Len(stateData) = 0) =>
       choroplethShows(stateData, topoData) = "placeholder"
  /\ (Ready /\ visualizationMode = "advanced"
        /\ (Len(groupBarRows) = 0 \/ selectedMetric = "")) =>
       groupBarShows(groupBarRows, selectedMetric) = "placeholder"
  /\ (Ready /\ visualizationMode = "default" /\ Len(selectedStates) > 1
        /\ Len(selectedRows) = 0) =>
       comparisonShows(selectedRows) = "placeholder"
  /\ (radarScene # NoRadar
        /\ (Len(selectedStates) = 0 \/ Len(selectedMetrics) = 0)) =>
       radarScene = "placeholder"
  /\ (PlotMounted(isLoading, error, visualizationMode)
        /\ (Len(stateData) = 0 \/ Len(plotSelectedMetrics) = 0)) =>
       plotShows(stateData, plotSelectedMetrics) = "placeholder"

\* ------------------------------------------------------------------------
\* Properties of the picks across the views
\* ------------------------------------------------------------------------

\* C21: a click on a state of the Choropleth Map is handled under the
\* selection mode and the selection of the moment of the click: the new
\* selection is what handleStateSelect computes from the current mode and
\* the current selected states; so is the first map click after
\* toggleSelectionMode.
C21_MapPickUnderCurrentMode ==
  [][ (lastOp'.kind = "pick" /\ lastOp'.view = "map") =>
        selectedStates' =
          nextSelectedStates(multipleSelectionMode, selectedStates,
                             lastOp'.id, dataByFips(stateData, lastOp'.id)) ]_vars

\* no state has two entries among the selected states
NoStateTwice(sel) ==
  \A i, j \in DOMAIN sel :
    Get(sel[i].data, "state_id") = Get(sel[j].data, "state_id") => i = j

\* C22: no state appears more than once among the selected states, whichever
\* views the picks came from (map click, bar click, region select): a pick
\* of a selected state from another view never adds a second entry for it.
C22_NoStateTwice == NoStateTwice(selectedStates)

\* C23: whenever the Choropleth Map is mounted, the feature of a state of
\* the code table is marked selected exactly when the state is among the
\* selected states, whichever operation put it there (map click, bar click,
\* region select followed by a switch of view).
C23_MarkedIffSelected ==
  mapOnStateSelect.mounted =>
    \A f \in DOMAIN fipsToStateMap :
      isSelected(selectedStates, f) <=>
        (\E i \in DOMAIN selectedStates :
           Get(selectedStates[i].data, "state_id") = fipsToStateMap[f])

\* ------------------------------------------------------------------------
\* Properties of the zoom of the map
\* ------------------------------------------------------------------------

\* the step is a redraw of the mounted map: the map stays mounted in its
\* place and the data, the metric or the selection was set
Redraws ==
  /\ mapOnStateSelect.mounted
  /\ mapOnStateSelect'.mounted
  /\ visualizationMode' = visualizationMode
  /\ lastOp'.kind \in {"pick", "selectMetric", "clearSelection"}

\* C24: within one mount of the map a redraw caused by a change of the
\* data, the metric or the selection leaves the zoom transform as it was,
\* whatever transform zoom, pan, + / - and reset had led to.
C24_RedrawKeepsTransform ==
  [][ Redraws => zoomTransform' = zoomTransform ]_vars

\* ------------------------------------------------------------------------
\* Properties of the Parallel Coordinates Plot and of the view switches
\* ------------------------------------------------------------------------

\* C25: the axes of the mounted Parallel Coordinates Plot are the selected
\* metrics of the compositor, the ones the Radar Chart is given, after any
\* sequence of chip clicks and of metric toggles of the plot.
C25_PlotAxesAreSelectedMetrics ==
  PlotMounted(isLoading, error, visualizationMode) =>
    Range(plotSelectedMetrics) = Range(selectedMetrics)

RegionViewSelects ==
  (lastOp'.kind = "selectRegion" /\ lastOp'.view = "regionView") =>
    /\ selectedRegion = NULL
    /\ selectedRegion' = "Northeast"
    /\ \A i \in DOMAIN selectedStates' :
         Includes(regions.Northeast, Get(selectedStates'[i].data, "state_id"))
    /\ \A i \in DOMAIN stateData :
         (Includes(regions.Northeast, Get(stateData[i], "state_id"))
            => (\E j \in DOMAIN selectedStates' :
                  selectedStates'[j].data = stateData[i]))

RegionViewActiveNoOp ==
  (lastOp'.kind = "regionViewActive") =>
    /\ selectedRegion # NULL
    /\ UNCHANGED << selectedRegion, selectedStates, selectedMetric,
                    selectedMetrics, multipleSelectionMode,
                    visualizationMode, mapOnStateSelect, radarScene >>

StateViewClears ==
  (lastOp'.view = "stateView") =>
    /\ selectedRegion' = NULL
    /\ selectedStates' = <<>>

\* C26: in the advanced view with the topology loaded exactly one map is
\* mounted, the Regional Map when a region is selected and the Choropleth
\* Map otherwise; the Region View button selects Northeast when no region
\* is selected and changes nothing when one is; the State View button
\* clears the region and the selected states.
C26_OneMapMounted ==
  /\ []((Ready /\ visualizationMode = "advanced" /\ topoData # NULL) =>
         /\ RegionalMapMounted <=> selectedRegion # NULL
         /\ mapOnStateSelect.mounted <=> selectedRegion = NULL)
  /\ [][RegionViewSelects /\ RegionViewActiveNoOp /\ StateViewClears]_vars

\* the Region View button was pressed with Northeast selected: the Regional
\* Map is mounted, the Choropleth Map is not, New York is selected
C26_Witness ==
  /\ lastOp.kind = "regionViewActive"
  /\ visualizationMode = "advanced"
  /\ topoData # NULL
  /\ RegionalMapMounted
  /\ ~mapOnStateSelect.mounted
  /\ selectedRegion = "Northeast"
  /\ Len(selectedStates) > 0

\* C27: while the plot is mounted and the catalog holds a metric the axis
\* list is not empty; taking the last axis away fills the list with the
\* first five metrics of the catalog.
C27_AxesNeverEmpty ==
  /\ []((PlotMounted(isLoading, error, visualizationMode) /\ Len(metrics) > 0)
         => Len(plotSelectedMetrics) > 0)
  /\ [][ (lastOp'.kind = "toggleMetric" /\
           plotSelectedMetrics = << lastOp'.id >>)
          => plotSelectedMetrics' = Slice(metrics, FirstFive) ]_vars

\* six metrics in the catalog; the x of the first metric's chip was clicked,
\* and the first metric heads a list of five axes again
C27_Witness ==
  /\ PlotMounted(isLoading, error, visualizationMode)
  /\ Len(metrics) = FirstFive + 1
  /\ lastOp.kind = "toggleMetric"
  /\ lastOp.id = metrics[1]
  /\ plotSelectedMetrics = Slice(metrics, FirstFive)

\* the rows and the metric of the Grouped Bar Chart that is on the page
BarsOnPage == groupBarBars(groupBarRows, selectedMetric, sortOrder)

\* a is ordered below b: unparsable below every number
OrderedBelow(a, b, metric) ==
  LET aValue == parsedValue(a, metric)
      bValue == parsedValue(b, metric)
  IN  \/ isNaN(aValue) /\ ~isNaN(bValue)
      \/ ~isNaN(aValue) /\ ~isNaN(bValue) /\ aValue.v < bValue.v

TimesIn(seq, x) == Cardinality({i \in DOMAIN seq : seq[i] = x})

SortFlips == (lastOp'.kind = "toggleSortOrder") => sortOrder' # sortOrder

MountStartsDescending ==
  (groupBarSlot(isLoading', error', visualizationMode',
                selectedRegion', selectedStates')
     # groupBarSlot(isLoading, error, visualizationMode,
                    selectedRegion, selectedStates))
    => sortOrder' = "desc"

\* C28: the Grouped Bar Chart draws one bar per row; the bars are the rows
\* in the order of the parsed value of the metric, highest first under
\* "desc" and lowest first under "asc", a row with an unparsable value
\* counting as lowest and drawn with height 0 at the baseline; the chart
\* starts with "desc" and each click on Sort flips the direction.
C28_BarsSortedPermutation ==
  /\ []((Ready /\ visualizationMode = "advanced" /\ selectedMetric # "") =>
         /\ Len(BarsOnPage) = Len(groupBarRows)
         /\ \A i \in DOMAIN groupBarRows :
              TimesIn([j \in DOMAIN BarsOnPage |-> BarsOnPage[j].row],
                      groupBarRows[i])
                = TimesIn(groupBarRows, groupBarRows[i])
         /\ \A i, j \in DOMAIN BarsOnPage :
              i < j =>
                IF sortOrder = "desc"
                  THEN ~OrderedBelow(BarsOnPage[i].row, BarsOnPage[j].row,
                                     selectedMetric)
                  ELSE ~OrderedBelow(BarsOnPage[j].row, BarsOnPage[i].row,
                                     selectedMetric)
         /\ \A i \in DOMAIN BarsOnPage :
              isNaN(parsedValue(BarsOnPage[i].row, selectedMetric)) =>
                /\ BarsOnPage[i].height = 0
                /\ BarsOnPage[i].y = groupBarBaseline)
  /\ [][SortFlips /\ MountStartsDescending]_vars

\* Sort was clicked and the direction is "desc" again; the chart holds three
\* rows in another order than it was given them: the highest number first,
\* the row with the unparsable value last, with height 0
C28_Witness ==
  /\ Ready
  /\ visualizationMode = "advanced"
  /\ lastOp.kind = "toggleSortOrder"
  /\ sortOrder = "desc"
  /\ Len(BarsOnPage) = 3
  /\ OrderedBelow(BarsOnPage[2].row, BarsOnPage[1].row, selectedMetric)
  /\ BarsOnPage[1].height > BarsOnPage[2].height
  /\ isNaN(parsedValue(BarsOnPage[3].row, selectedMetric))
  /\ BarsOnPage[3].height = 0
  /\ groupBarRows # [j \in DOMAIN BarsOnPage |-> BarsOnPage[j].row]

\* the rows the Radar Chart on the page is given
RadarRows == [i \in DOMAIN selectedStates |-> selectedStates[i].data]

\* the value of a row and the maximum of the rows as parsed, NaN counted as
\* 0, nothing divided by 1000
RawValue(row, metric) ==
  IF isNaN(parsedValue(row, metric)) THEN 0 ELSE parsedValue(row, metric).v

RawMax(rows, metric) == d3max(nanAsZero(parsedColumn(rows, metric)))

\* the point of the income with the division by 1000 left out of the value
\* and of the maximum
UnscaledPoint(rows, row, metric) ==
  radarPercentage(Num(RawValue(row, metric)), RawMax(rows, metric))

\* what C29 says of the point of one row on the axis of one metric
PointIsPercentOfMax(rows, row, metric) ==
  LET point == radarPoint(rows, row, metric)
      value == RawValue(row, metric)
      max   == RawMax(rows, metric)
  IN  /\ max # 0 => point = Times100(Fraction(value, max))
      /\ value >= 0 => (0 <= point.n /\ point.n <= 100 * point.d)
      /\ (max > 0 /\ value = max) => point = [n |-> 100, d |-> 1]
      /\ isNaN(parsedValue(row, metric)) => point.n = 0
      /\ metric = Income => point = UnscaledPoint(rows, row, metric)

\* C29: every point of the Radar Chart is the value of the state as a
\* percentage of the maximum of the metric over the states of the chart:
\* within 0..100 for a value that is not negative, 100 for the state that
\* holds a positive maximum, 0 for an unparsable value, and for the income
\* the same with and without the division by 1000.
C29_RadarPercentOfMax ==
  radarScene = RadarDrawn =>
    \A i \in DOMAIN RadarRows, k \in DOMAIN selectedMetrics :
      PointIsPercentOfMax(RadarRows, RadarRows[i], selectedMetrics[k])

\* the state codes of the static code table
StateCodes == {fipsToStateMap[f] : f \in DOMAIN fipsToStateMap}

\* a step that selects a region selects the rows of its states, looked up
\* in either copy of the table
SelectRegionResolves ==
  (lastOp'.kind = "selectRegion") =>
    /\ selectedRegion' = lastOp'.id
    /\ selectedStates' =
         selectedRegionStates(regionStateData(stateData, regions[lastOp'.id]))
    /\ selectedStates' =
         selectedRegionStates(
           regionStateData(stateData, regionsRegionalMap[lastOp'.id]))

\* C30: every state code of the code table is in exactly one region; the
\* table of the compositor and the table of the Regional Map put every code
\* in the same region, so a region selected with the Region View button or
\* in the Regional Map has the same states.
C30_RegionTablesAgree ==
  /\ [](/\ \A code \in StateCodes :
             Cardinality({r \in RegionNames : Includes(regions[r], code)}) = 1
        /\ \A code \in StateCodes, r \in RegionNames :
             Includes(regions[r], code)
               <=> Includes(regionsRegionalMap[r], code)
        /\ \A r \in RegionNames :
             regionStateData(stateData, regions[r])
               = regionStateData(stateData, regionsRegionalMap[r]))
  /\ [][SelectRegionResolves]_vars

\* Northeast was selected in the Regional Map and has a state of the data
\* file
C30_Witness ==
  /\ lastOp.kind = "selectRegion"
  /\ lastOp.view = "regionalMap"
  /\ selectedRegion = "Northeast"
  /\ Len(selectedStates) > 0
  /\ \A i \in DOMAIN selectedStates :
       Includes(regionsRegionalMap.Northeast, selectedStates[i].id)

====
